---- MODULE Spec2Model ----
(***************************************************************************)
(* paw-quiz (src/main.py): the run-token state machine and the level       *)
(* builder.  The server keeps no run state: every handler is a function of *)
(* the presented token, the request inputs, the clock and the cached       *)
(* dataset.  Handlers are therefore operators returning the response, and  *)
(* the actions apply them to the tokens a client holds.                    *)
(*                                                                         *)
(* Conventions.  An optional value (Python None) is the empty set, a       *)
(* present value x is {x}.  Python's 0-based position pos is index pos+1   *)
(* of a TLA+ sequence.  A JSON request value is tagged: an integer, null   *)
(* (also: key missing) or a non-numeric text.  Secrets and digests are     *)
(* natural numbers.  A pseudo-random generator is its integer state.       *)
(***************************************************************************)
EXTENDS Integers, Sequences, FiniteSets, TLC

VARIABLES
    dataset,     \* the content of the dataset file (DATA_JSON_PATH), by number
    app_secret,  \* environment variable APP_SECRET (0: unset or blank)
    now,         \* the clock, time.time() in seconds
    held,        \* the run token the client stores (localStorage), or None
    req,         \* the request the client sent last
    resp,        \* the response to it
    issued,      \* history: the tokens the server has written (SpecForge)
    cache,       \* lru_cache: the cached functions that hold their result
    calls,       \* history: how often the body of a cached function was run
    stack,       \* the calls in progress of each request thread (SpecCache)
    disk         \* the content of the dataset file now, when it is edited
                 \* while the process runs (SpecEdit); dataset is then the
                 \* content the process has read

vars == <<dataset, app_secret, now, held, req, resp, issued, cache, calls, stack, disk>>

-----------------------------------------------------------------------------
(* Bounds of the model.                                                    *)

\* a client answers wrongly at most MaxWrong times within one run
MaxWrong == 1
\* the operating system's entropy takes the values 1..MaxEntropy
MaxEntropy == 1
\* the clock reads 0..MaxSlack seconds, and as many past the tokens' maximal age
MaxSlack == 1

(* Program constants.                                                      *)

QUESTIONS_PER_LEVEL == 15
UNKNOWN_LIMIT == 5
RUN_TOKEN_MAX_AGE_S == 2592000

-----------------------------------------------------------------------------
(* Optional values, JSON request values, small helpers.                    *)

None == {}
Some(x) == {x}
Get(o) == CHOOSE x \in o : TRUE

JNull == [t |-> "null"]
JInt(n) == [t |-> "int", v |-> n]
JStr(s) == [t |-> "str", s |-> s]
\* a number with a fraction, by its double: JFloat(3) is 1.5
JFloat(twice) == [t |-> "float", twice |-> twice]
JBool(b) == [t |-> "bool", b |-> b]

Min(a, b) == IF a < b THEN a ELSE b
Max(a, b) == IF a > b THEN a ELSE b

Range(s) == {s[i] : i \in 1..Len(s)}

\* Python's s[a:b] for 0 <= a <= b
Slice(s, a, b) == SubSeq(s, Min(a, Len(s)) + 1, Min(b, Len(s)))

\* s with its element at (1-based) index j removed: list.pop(j-1)
RemoveAt(s, j) == SubSeq(s, 1, j - 1) \o SubSeq(s, j + 1, Len(s))

\* the integers whose decimal numerals are texts of the model
Numerals == (0 - 2)..(QUESTIONS_PER_LEVEL + 2)

\* _safe_int: int(v), or the default when int() raises.  int() cuts a
\* fraction off towards zero, reads a decimal numeral, takes true for 1 and
\* false for 0, and raises for null and for any other text
_safe_int(v, default) ==
    IF v.t = "int" THEN v.v
    ELSE IF v.t = "float"
    THEN (IF v.twice >= 0 THEN v.twice \div 2 ELSE 0 - ((0 - v.twice) \div 2))
    ELSE IF v.t = "bool" THEN (IF v.b THEN 1 ELSE 0)
    ELSE IF v.t = "str" /\ \E n \in Numerals : ToString(n) = v.s
    THEN CHOOSE n \in Numerals : ToString(n) = v.s
    ELSE default

-----------------------------------------------------------------------------
(* The dataset.  The texts of the model are already stripped; "" is a      *)
(* blank text.  image_ok: the image path is safe and the file exists.      *)

Slugs == <<"c01", "c02", "c03", "c04", "c05", "c06", "c07", "c08", "c09",
           "c10", "c11", "c12", "c13", "c14", "c15", "c16", "c17", "c18",
           "c19", "c20", "c21", "c22", "c23", "c24", "c25", "c26", "c27",
           "c28", "c29", "c30", "c31", "c32">>

\* ID_RE on the texts of the model: the slugs, and one slug of no character
ID_RE(s) == s \in Range(Slugs) \cup {"zz-9"}

EXCLUDE_PROFILE_KEYS == {"Stimme (US/Kanada)", "Stimme (UK)"}

\* str.lower() on the values of the model
Lower(s) == IF s \in {"Unbekannt", "UNBEKANNT", "unbekannt"} THEN "unbekannt"
            ELSE IF s \in {"Unknown", "unknown"} THEN "unknown" ELSE s

Profile(unknowns) ==
    <<<<"Rasse", "Hund">>, <<"Stimme (UK)", "Unbekannt">>>>
    \o [i \in 1..unknowns |-> <<"k" \o ToString(i), "Unbekannt">>]

Character(i, img, pf) ==
    [id |-> Slugs[i], name |-> "Name " \o Slugs[i],
     image_rel |-> "img/" \o Slugs[i] \o ".png", image_ok |-> img,
     profile_flat |-> pf,
     source |-> [page_url |-> "https://wiki/" \o Slugs[i], attribution |-> "CC-BY-SA"]]

\* 16 eligible characters, one valid character with five unknown values,
\* one character without an image file
DefaultDataset ==
    [exists |-> TRUE,
     characters |-> [i \in 1..16 |-> Character(i, TRUE, Profile(i % 5))]
                    \o <<Character(17, TRUE, Profile(5)),
                         Character(18, FALSE, Profile(0))>>]

\* n eligible characters and one valid character with five unknown values
SizedDataset(n) ==
    [exists |-> TRUE,
     characters |-> [i \in 1..n |-> Character(i, TRUE, Profile(i % 5))]
                    \o <<Character(n + 1, TRUE, Profile(5))>>]

\* the numbers of eligible characters of the other dataset files
DatasetSizes == <<2, 3, 15, 30, 31>>

\* no dataset file
MissingDataset == [exists |-> FALSE, characters |-> <<>>]

\* a dataset file with two valid characters and one without an image file
SparseDataset ==
    [exists |-> TRUE,
     characters |-> <<Character(1, TRUE, Profile(0)), Character(2, TRUE, Profile(1)),
                      Character(3, FALSE, Profile(0))>>]

\* five values "unknown" in English, in two letter cases
EnglishProfile ==
    <<<<"Rasse", "Hund">>>>
    \o [i \in 1..5 |-> <<"k" \o ToString(i), IF i % 2 = 0 THEN "Unknown" ELSE "unknown">>]

\* the only pair that is not blank has an excluded key
VoiceProfile == <<<<"Stimme (UK)", "Kim">>, <<"Rasse", "">>, <<"", "Hund">>>>

\* a dataset file with three ordinary characters, one with five values
\* "unknown" and one whose profile holds a voice only
OddDataset ==
    [exists |-> TRUE,
     characters |-> [i \in 1..3 |-> Character(i, TRUE, Profile(i))]
                    \o <<Character(4, TRUE, EnglishProfile),
                         Character(5, TRUE, VoiceProfile)>>]

\* the dataset files of the model, by the number of their content
Datasets ==
    <<DefaultDataset>> \o [i \in 1..Len(DatasetSizes) |-> SizedDataset(DatasetSizes[i])]
    \o <<MissingDataset, SparseDataset, OddDataset>>

\* the content of the process's dataset file
File == Datasets[dataset]

_sha256_hex(bytes) == 1000 + bytes

_nonempty_profile_flat(pf) == \E i \in 1..Len(pf) : pf[i][1] # "" /\ pf[i][2] # ""

\* load_dataset raises FileNotFoundError when the file is missing
load_dataset_raises == ~File.exists

\* the conditions of get_valid_characters on one character
ValidCharacter(ch) ==
    /\ ID_RE(ch.id)
    /\ ch.name # ""
    /\ _nonempty_profile_flat(ch.profile_flat)
    /\ ch.image_rel # ""
    /\ ch.image_ok

KeptPair(kv) == kv[1] # "" /\ kv[1] \notin EXCLUDE_PROFILE_KEYS /\ kv[2] # ""

_filter_profile_flat(pf) == SelectSeq(pf, KeptPair)

IsUnbekannt(kv) == Lower(kv[2]) = "unbekannt"

_unknown_count(pf) == Len(SelectSeq(_filter_profile_flat(pf), IsUnbekannt))

Eligible(ch) == _unknown_count(ch.profile_flat) < UNKNOWN_LIMIT

IdsOf(chars) == [i \in 1..Len(chars) |-> chars[i].id]

-----------------------------------------------------------------------------
(* Secret and pseudo-random generators.                                    *)

_derive_secret_from_dataset_bytes(all_bytes) ==
    IF app_secret # 0 THEN app_secret ELSE _sha256_hex(all_bytes)

\* a missing file reads as the fallback bytes (0)
_dataset_secret ==
    _derive_secret_from_dataset_bytes(IF File.exists THEN dataset ELSE 0)

\* the secrets an operator sets in the model (0: none)
AppSecrets == {0, 7, 9}

\* the secrets a process with dataset d can have
SecretsOf(d) == (AppSecrets \ {0}) \cup {_sha256_hex(IF Datasets[d].exists THEN d ELSE 0)}

RngModulus == 65537

\* one step of a generator, and the number below n it yields
Advance(x) == (x * 75 + 74) % RngModulus
randbelow(x, n) == x % n

\* _stable_rng under a given secret; seed_parts are coded as a number:
\* ["global-order"] is 1, ["fill", lv] is 100 + lv
StableRng(secret, seed_code) == (secret * 7919 + seed_code * 104729 + 12345) % RngModulus

_stable_rng(seed_code) == StableRng(_dataset_secret, seed_code)

\* random.shuffle: for i = len-1 down to 1, swap x[i] with x[randbelow(i+1)]
RECURSIVE ShuffleFrom(_, _, _)
ShuffleFrom(xs, x, i) ==
    IF i < 1 THEN [list |-> xs, rng |-> x]
    ELSE LET j == randbelow(x, i + 1)
             ys == [xs EXCEPT ![i + 1] = xs[j + 1], ![j + 1] = xs[i + 1]]
         IN  ShuffleFrom(ys, Advance(x), i - 1)

shuffle(xs, x) == ShuffleFrom(xs, x, Len(xs) - 1)

\* random.sample(population, k) for a small population: k draws from a pool,
\* the drawn slot being refilled with the pool's last element
RECURSIVE SampleFrom(_, _, _, _)
SampleFrom(pool, k, x, acc) ==
    IF k = 0 THEN [list |-> acc, rng |-> x]
    ELSE LET n == Len(pool)
             j == randbelow(x, n)
             pool2 == SubSeq([pool EXCEPT ![j + 1] = pool[n]], 1, n - 1)
         IN  SampleFrom(pool2, k - 1, Advance(x), Append(acc, pool[j + 1]))

\* a faulty variant of sample: k draws with replacement (random.choices)
sample_Repeat(population, k, x) ==
    [list |-> [i \in 1..k |->
                 population[randbelow(IF i = 1 THEN x ELSE Advance(x), Len(population)) + 1]],
     rng |-> Advance(Advance(x))]

sample(population, k, x) == SampleFrom(population, k, x, <<>>)

-----------------------------------------------------------------------------
(* Levels, computed from the eligible ids and the secret.                  *)

\* the while loop of get_levels: fill the chunk up to QUESTIONS_PER_LEVEL
RECURSIVE FillChunk(_, _, _, _)
FillChunk(chunk, pool, x, ordered) ==
    IF Len(chunk) >= QUESTIONS_PER_LEVEL THEN chunk
    ELSE IF Len(pool) > 0
         THEN LET j == randbelow(x, Len(pool))
              IN  FillChunk(Append(chunk, pool[j + 1]), RemoveAt(pool, j + 1),
                            Advance(x), ordered)
         ELSE LET j == randbelow(x, Len(ordered))
              IN  FillChunk(Append(chunk, ordered[j + 1]), pool, Advance(x), ordered)

\* a faulty variant of LevelCount: the rest of the division is dropped
LevelCount_Floor(n) == Max(1, n \div QUESTIONS_PER_LEVEL)

LevelCount(n) == Max(1, (n + QUESTIONS_PER_LEVEL - 1) \div QUESTIONS_PER_LEVEL)

\* the global order of the eligible ids
OrderedIds(ids, secret) == shuffle(ids, StableRng(secret, 1)).list

\* a faulty variant of LevelChunk: a chunk starts at the last id of the chunk
\* before
LevelChunk_Overlap(ordered, secret, lv) ==
    LET start == (lv - 1) * (QUESTIONS_PER_LEVEL - 1)
        chunk == Slice(ordered, start, start + QUESTIONS_PER_LEVEL)
        NotInChunk(c) == c \notin Range(chunk)
    IN  IF Len(chunk) < QUESTIONS_PER_LEVEL
        THEN FillChunk(chunk, SelectSeq(ordered, NotInChunk),
                       StableRng(secret, 100 + lv), ordered)
        ELSE chunk

\* a faulty variant of LevelChunk: the pool is the whole ordered list
LevelChunk_WholePool(ordered, secret, lv) ==
    LET start == (lv - 1) * QUESTIONS_PER_LEVEL
        chunk == Slice(ordered, start, start + QUESTIONS_PER_LEVEL)
    IN  IF Len(chunk) < QUESTIONS_PER_LEVEL
        THEN FillChunk(chunk, ordered, StableRng(secret, 100 + lv), ordered)
        ELSE chunk

LevelChunk(ordered, secret, lv) ==
    LET start == (lv - 1) * QUESTIONS_PER_LEVEL
        chunk == Slice(ordered, start, start + QUESTIONS_PER_LEVEL)
        NotInChunk(c) == c \notin Range(chunk)
    IN  IF Len(chunk) < QUESTIONS_PER_LEVEL
        THEN FillChunk(chunk, SelectSeq(ordered, NotInChunk),
                       StableRng(secret, 100 + lv), ordered)
        ELSE chunk

\* the body of get_levels
Levels(ids, secret) ==
    LET ordered == OrderedIds(ids, secret)
    IN  [lv \in 1..LevelCount(Len(ids)) |->
            [level |-> lv, questions |-> QUESTIONS_PER_LEVEL,
             character_ids |-> LevelChunk(ordered, secret, lv)]]

-----------------------------------------------------------------------------
(* The caches (lru_cache): what a process computes once from its dataset   *)
(* file and its secret.                                                    *)

ValidCache ==
    [d \in DOMAIN Datasets |-> SelectSeq(Datasets[d].characters, ValidCharacter)]

EligibleCache == [d \in DOMAIN Datasets |-> SelectSeq(ValidCache[d], Eligible)]

\* get_levels has no result when get_eligible_characters raises
LevelsCache ==
    [d \in DOMAIN Datasets |->
        [s \in SecretsOf(d) |->
            IF Len(ValidCache[d]) < 3 \/ Len(EligibleCache[d]) < 3 THEN <<>>
            ELSE Levels(IdsOf(EligibleCache[d]), s)]]

\* get_valid_characters raises ValueError below three valid characters
get_valid_characters_raises == load_dataset_raises \/ Len(ValidCache[dataset]) < 3

get_valid_characters == ValidCache[dataset]

\* a faulty variant of get_eligible_characters_raises: two suffice
get_eligible_characters_raises_Two == Len(EligibleCache[dataset]) < 2

\* get_eligible_characters raises QuizDataError below three eligible ones
get_eligible_characters_raises == Len(EligibleCache[dataset]) < 3

get_eligible_characters == EligibleCache[dataset]

\* the message of that QuizDataError
EligibleMessage ==
    "Zu wenig geeignete Charaktere (>=3 benötigt). Aktuell: "
    \o ToString(Len(EligibleCache[dataset])) \o " (Filter: < "
    \o ToString(UNKNOWN_LIMIT) \o "× 'Unbekannt')."

get_levels == LevelsCache[dataset][_dataset_secret]

\* The exception a handler meets when it needs the levels or the eligible
\* characters: "" (none), or the class of the exception raised.
LevelsFailure ==
    IF load_dataset_raises THEN "FileNotFoundError"
    ELSE IF get_valid_characters_raises THEN "ValueError"
    ELSE IF get_eligible_characters_raises THEN "QuizDataError"
    ELSE ""

\* The same for a handler that needs the valid characters only.
ValidFailure ==
    IF load_dataset_raises THEN "FileNotFoundError"
    ELSE IF get_valid_characters_raises THEN "ValueError"
    ELSE ""

-----------------------------------------------------------------------------
(* The lru_cache wrappers of a process that serves requests in threads.    *)
(* A call looks the result up; on a miss it runs the body of the function, *)
(* which calls the next cached function, and stores the result when the    *)
(* body returns.  Lookup and store are atomic; between them other threads  *)
(* run.                                                                    *)

MaxThreads == 2

Threads == 1..MaxThreads

Cached == {"load_dataset", "get_valid_characters", "get_eligible_characters", "get_levels"}

\* the cached function the body of f calls, or "" for none
Callee(f) ==
    IF f = "get_levels" THEN "get_eligible_characters"
    ELSE IF f = "get_eligible_characters" THEN "get_valid_characters"
    ELSE IF f = "get_valid_characters" THEN "load_dataset"
    ELSE ""

\* a process that has served no request yet
ColdStart ==
    /\ disk = dataset
    /\ cache = [f \in Cached |-> FALSE]
    /\ calls = [f \in Cached |-> 0]
    /\ stack = [t \in Threads |-> <<>>]

Top(t) == stack[t][Len(stack[t])]

Pop(t) == [stack EXCEPT ![t] = SubSeq(@, 1, Len(@) - 1)]

\* a request that needs the levels arrives at an idle thread
Request(t) ==
    /\ stack[t] = <<>>
    /\ stack' = [stack EXCEPT ![t] = <<[fn |-> "get_levels", pc |-> "call"]>>]
    /\ UNCHANGED <<cache, calls>>

\* the wrapper's lookup: a hit returns the stored result, a miss starts the
\* body
Lookup(t) ==
    /\ stack[t] # <<>> /\ Top(t).pc = "call"
    /\ IF cache[Top(t).fn]
       THEN stack' = Pop(t) /\ UNCHANGED calls
       ELSE /\ stack' = [stack EXCEPT ![t][Len(stack[t])].pc = "body"]
            /\ calls' = [calls EXCEPT ![Top(t).fn] = @ + 1]
    /\ UNCHANGED cache

\* the body calls the next cached function, or reads the file
Descend(t) ==
    /\ stack[t] # <<>> /\ Top(t).pc = "body"
    /\ stack' = [stack EXCEPT ![t] =
                    [@ EXCEPT ![Len(@)].pc = "rest"]
                    \o (IF Callee(Top(t).fn) = "" THEN <<>>
                        ELSE <<[fn |-> Callee(Top(t).fn), pc |-> "call"]>>)]
    /\ UNCHANGED <<cache, calls>>

\* the body returns and the wrapper stores its result
Store(t) ==
    /\ stack[t] # <<>> /\ Top(t).pc = "rest"
    /\ cache' = [cache EXCEPT ![Top(t).fn] = TRUE]
    /\ stack' = Pop(t)
    /\ UNCHANGED calls

-----------------------------------------------------------------------------
(* Run builder.                                                            *)

\* the loop of _build_run over the level's character ids; raises is set
\* when a question has fewer than two distractors
RECURSIVE BuildQuestions(_, _, _, _)
BuildQuestions(cids, eligible_ids, x, acc) ==
    IF cids = <<>> THEN [raises |-> FALSE, qs |-> acc]
    ELSE LET cid == Head(cids)
             NotCid(i) == i # cid
             distractors == SelectSeq(eligible_ids, NotCid)
         IN  IF cid \notin Range(eligible_ids)
             THEN BuildQuestions(Tail(cids), eligible_ids, x, acc)
             ELSE IF Len(distractors) < 2
             THEN [raises |-> TRUE, qs |-> acc]
             ELSE LET d == sample(distractors, 2, x)
                      o == shuffle(<<cid, d.list[1], d.list[2]>>, d.rng)
                  IN  BuildQuestions(Tail(cids), eligible_ids, o.rng,
                                     Append(acc, [cid |-> cid, opt |-> o.list]))

\* random.SystemRandom() and uuid.uuid4() read the system's entropy: the
\* generator starts from it, and the run id is the entropy's number
SystemRandom(entropy) == (entropy * 7919) % RngModulus
uuid4(entropy) == entropy

\* the questions _build_run draws, tabulated: they depend on the dataset,
\* the secret, the level and the entropy only
Drawn ==
    [d \in DOMAIN Datasets |->
        [s \in SecretsOf(d) |->
            [lv \in DOMAIN LevelsCache[d][s] |->
                [entropy \in 1..MaxEntropy |->
                    BuildQuestions(LevelsCache[d][s][lv].character_ids,
                                   IdsOf(EligibleCache[d]), SystemRandom(entropy), <<>>)]]]]

\* a faulty variant of _build_run: the run is marked as a run of level 1
_build_run_LevelOne(level, entropy) ==
    LET b == Drawn[dataset][_dataset_secret][level][entropy]
    IN  IF b.raises
        THEN [raises |-> TRUE, msg |-> "Zu wenig Distraktoren im Datenset (>=2 benötigt).",
              runp |-> None]
        ELSE IF Len(b.qs) # QUESTIONS_PER_LEVEL
        THEN [raises |-> TRUE, msg |-> "Interner Fehler: Level enthält nicht 15 Fragen.",
              runp |-> None]
        ELSE [raises |-> FALSE, msg |-> "",
              runp |-> Some([v |-> 1, rid |-> uuid4(entropy), lvl |-> 1, t0 |-> now,
                             score |-> 0, next |-> 0, qs |-> b.qs,
                             ans |-> [i \in 1..QUESTIONS_PER_LEVEL |-> None],
                             ok |-> [i \in 1..QUESTIONS_PER_LEVEL |-> None]])]

\* _build_run(level): [raises, msg, runp]
_build_run(level, entropy) ==
    LET b == Drawn[dataset][_dataset_secret][level][entropy]
    IN  IF b.raises
        THEN [raises |-> TRUE, msg |-> "Zu wenig Distraktoren im Datenset (>=2 benötigt).",
              runp |-> None]
        ELSE IF Len(b.qs) # QUESTIONS_PER_LEVEL
        THEN [raises |-> TRUE, msg |-> "Interner Fehler: Level enthält nicht 15 Fragen.",
              runp |-> None]
        ELSE [raises |-> FALSE, msg |-> "",
              runp |-> Some([v |-> 1, rid |-> uuid4(entropy), lvl |-> level, t0 |-> now,
                             score |-> 0, next |-> 0, qs |-> b.qs,
                             ans |-> [i \in 1..QUESTIONS_PER_LEVEL |-> None],
                             ok |-> [i \in 1..QUESTIONS_PER_LEVEL |-> None]])]

-----------------------------------------------------------------------------
(* Token codec.  A token is the text of the JSON object {k, p}, the time   *)
(* of signing and a signature over the three; fmt says that the text       *)
(* matches TOKEN_RE (the tokens the serializer writes do: a run of 15      *)
(* questions with ids of at most 80 characters stays below 8000            *)
(* characters).  In p the four numbers of a run are JSON values, which the *)
(* decoder converts with int(); texts and arrays are kept as they decode.  *)

\* a faulty variant of SERIALIZER: the secret of the dataset, whatever
\* APP_SECRET is
SERIALIZER_Fixed == _sha256_hex(dataset)

SERIALIZER == _dataset_secret

\* the JSON text of a payload
json_dumps(payload) ==
    [payload EXCEPT !.lvl = JInt(@), !.score = JInt(@), !.next = JInt(@), !.t0 = JInt(@)]

\* a faulty variant of Sign: the signature does not cover the payload
Sign_KeyOnly(s, kind, body, ts) == [key |-> s, k |-> kind, ts |-> ts]

\* the signature of the serializer with secret s: it fits one secret, one
\* object and one signing time
Sign(s, kind, body, ts) == [key |-> s, k |-> kind, p |-> body, ts |-> ts]

_token_dumps(s, kind, payload) ==
    LET body == json_dumps(payload)
    IN  [fmt |-> TRUE, k |-> kind, p |-> body, ts |-> now,
         sig |-> Sign(s, kind, body, now)]

\* a faulty variant of _token_loads: the age of the signature is not looked at
_token_loads_Ageless(s, token, kind, max_age_s) ==
    IF ~token.fmt THEN [raises |-> "QuizDataError:format", p |-> None]
    ELSE IF token.sig # Sign(s, token.k, token.p, token.ts)
    THEN [raises |-> "BadSignature", p |-> None]
    ELSE IF token.k # kind THEN [raises |-> "QuizDataError:kind", p |-> None]
    ELSE [raises |-> "", p |-> Some(token.p)]

\* a faulty variant of _token_loads: the age is looked at before the
\* signature
_token_loads_AgeFirst(s, token, kind, max_age_s) ==
    IF ~token.fmt THEN [raises |-> "QuizDataError:format", p |-> None]
    ELSE IF now - token.ts > max_age_s THEN [raises |-> "SignatureExpired", p |-> None]
    ELSE IF token.sig # Sign(s, token.k, token.p, token.ts)
    THEN [raises |-> "BadSignature", p |-> None]
    ELSE IF token.k # kind THEN [raises |-> "QuizDataError:kind", p |-> None]
    ELSE [raises |-> "", p |-> Some(token.p)]

\* _token_loads: [raises, p]; raises is "" or the exception raised
_token_loads(s, token, kind, max_age_s) ==
    IF ~token.fmt THEN [raises |-> "QuizDataError:format", p |-> None]
    ELSE IF token.sig # Sign(s, token.k, token.p, token.ts)
    THEN [raises |-> "BadSignature", p |-> None]
    ELSE IF now - token.ts > max_age_s THEN [raises |-> "SignatureExpired", p |-> None]
    ELSE IF token.k # kind THEN [raises |-> "QuizDataError:kind", p |-> None]
    ELSE [raises |-> "", p |-> Some(token.p)]

\* a faulty variant of needed: the run id is not asked for
needed_Short == {"lvl", "score", "next", "qs", "ans", "ok", "t0"}

needed == {"rid", "lvl", "score", "next", "qs", "ans", "ok", "t0"}

\* a faulty variant of IntField: the field is not read, the default is taken
IntField_Default(v, default) == default

\* _safe_int on a field of a decoded payload
IntField(v, default) == _safe_int(v, default)

\* a faulty variant of NormalizeInts: the start time is stamped anew
NormalizeInts_Restamp(runp) ==
    [runp EXCEPT !.lvl = IntField(@, 1), !.score = IntField(@, 0),
                 !.next = IntField(@, 0), !.t0 = now]

\* the "normalize ints" assignments of _validate_run_token
NormalizeInts(runp) ==
    [runp EXCEPT !.lvl = IntField(@, 1), !.score = IntField(@, 0),
                 !.next = IntField(@, 0), !.t0 = IntField(@, now)]

\* _validate_run_token: [msg, runp]; msg is "" or the QuizDataError's message
_validate_run_token(run_token) ==
    LET l == _token_loads(SERIALIZER, run_token, "run", RUN_TOKEN_MAX_AGE_S)
        Bad(m) == [msg |-> m, runp |-> None]
    IN  IF l.raises = "QuizDataError:format" THEN Bad("Ungültiges Token-Format.")
        ELSE IF l.raises = "SignatureExpired"
        THEN Bad("Run-Token ist abgelaufen. Bitte starte das Level neu.")
        ELSE IF l.raises = "BadSignature"
        THEN Bad("Run-Token ist ungültig. Bitte starte das Level neu.")
        ELSE IF l.raises = "QuizDataError:kind" THEN Bad("Ungültiges Token.")
        ELSE LET runp == Get(l.p)
             IN  IF ~(needed \subseteq DOMAIN runp)
                 THEN Bad("Run-Token ist unvollständig. Bitte starte das Level neu.")
                 ELSE IF Len(runp.qs) # QUESTIONS_PER_LEVEL
                 THEN Bad("Run-Token ist ungültig (qs).")
                 ELSE IF Len(runp.ans) # QUESTIONS_PER_LEVEL
                 THEN Bad("Run-Token ist ungültig (ans).")
                 ELSE IF Len(runp.ok) # QUESTIONS_PER_LEVEL
                 THEN Bad("Run-Token ist ungültig (ok).")
                 ELSE IF IntField(runp.next, 0) < 0
                         \/ IntField(runp.next, 0) > QUESTIONS_PER_LEVEL
                 THEN Bad("Run-Token ist ungültig (next).")
                 ELSE [msg |-> "", runp |-> Some(NormalizeInts(runp))]

\* a faulty variant of _update_run_token: the token is stamped with the
\* start time of the run
_update_run_token_FromStart(runp) ==
    [fmt |-> TRUE, k |-> "run", p |-> json_dumps(runp), ts |-> runp.t0,
     sig |-> Sign(SERIALIZER, "run", json_dumps(runp), runp.t0)]

\* the fields it converts with int() are integers already
_update_run_token(runp) == _token_dumps(SERIALIZER, "run", runp)

-----------------------------------------------------------------------------
(* Views of a run.                                                         *)

\* a faulty variant of _state_from_run: done only past the last position
_state_from_run_Past(runp, view_pos) ==
    [level |-> runp.lvl, pos |-> view_pos, next |-> runp.next,
     total |-> QUESTIONS_PER_LEVEL, score |-> runp.score,
     done |-> runp.next > QUESTIONS_PER_LEVEL]

_state_from_run(runp, view_pos) ==
    [level |-> runp.lvl, pos |-> view_pos, next |-> runp.next,
     total |-> QUESTIONS_PER_LEVEL, score |-> runp.score,
     done |-> runp.next >= QUESTIONS_PER_LEVEL]

\* _find_character: the valid characters with this id (the first is taken)
_find_character(cid) ==
    LET HasId(c) == c.id = cid
    IN  IF ~ID_RE(cid) THEN <<>> ELSE SelectSeq(get_valid_characters, HasId)

NameOf(oid) ==
    LET HasId(c) == c.id = oid
        m == SelectSeq(get_valid_characters, HasId)
    IN  IF m = <<>> THEN oid ELSE m[Len(m)].name

\* a faulty variant of Revealed: every position is taken for answered
Revealed_Always(runp, pos) == TRUE

\* _question_payload: the position has been answered
Revealed(runp, pos) == runp.ans[pos + 1] # None

\* _question_payload: [raises, msg, q]; raises is "", "QuizDataError" or the
\* class of the exception the dataset access raised
_question_payload(runp, pos) ==
    LET Bad(cls, m) == [raises |-> cls, msg |-> m, q |-> None]
    IN  IF pos < 0 \/ pos >= Len(runp.qs)
        THEN Bad("QuizDataError", "Ungültige Frage-Position.")
        ELSE LET q == runp.qs[pos + 1]
                 found == _find_character(q.cid)
             IN  IF ID_RE(q.cid) /\ ValidFailure # "" THEN Bad(ValidFailure, ValidFailure)
                 ELSE IF found = <<>> THEN Bad("QuizDataError", "Charakter nicht gefunden.")
                 ELSE LET ch == found[1]
                          answered == Revealed(runp, pos)
                          selected_id == IF answered THEN runp.ans[pos + 1] ELSE None
                          correct_id == IF answered THEN Some(q.cid) ELSE None
                          correct == IF answered THEN Some(selected_id = correct_id) ELSE None
                      IN  [raises |-> "", msg |-> "",
                           q |-> Some(
                             [idx |-> pos + 1, pos |-> pos, total |-> QUESTIONS_PER_LEVEL,
                              image_url |-> "/media/" \o ch.image_rel,
                              options |-> [i \in 1..Len(q.opt) |->
                                             [id |-> q.opt[i], text |-> NameOf(q.opt[i])]],
                              answered |-> answered, selected_id |-> selected_id,
                              correct_id |-> correct_id, correct |-> correct,
                              source |-> [attribution |-> ch.source.attribution,
                                          page_url |-> ch.source.page_url],
                              attribution |-> ch.source.attribution,
                              page_url |-> ch.source.page_url])]

IsTrue(x) == x = Some(TRUE)

\* a faulty variant of _summary_from_run: every written flag is counted
_summary_from_run_Written(runp) ==
    LET Written(x) == x # None
        correct_n == Len(SelectSeq(runp.ok, Written))
    IN  [level |-> runp.lvl, score |-> runp.score, correct_n |-> correct_n,
         accuracy |-> [num |-> correct_n, den |-> QUESTIONS_PER_LEVEL],
         duration_s |-> Max(0, now - runp.t0)]

_summary_from_run(runp) ==
    LET correct_n == Len(SelectSeq(runp.ok, IsTrue))
    IN  [level |-> runp.lvl, score |-> runp.score, correct_n |-> correct_n,
         accuracy |-> [num |-> correct_n, den |-> QUESTIONS_PER_LEVEL],
         duration_s |-> Max(0, now - runp.t0)]

-----------------------------------------------------------------------------
(* Requests and responses.  A body holds the keys of the JSON object the   *)
(* client posts (a missing key: None, JNull or ""); valid is FALSE for a   *)
(* body that is no JSON.  A response holds the keys of the JSON answer     *)
(* (the token is "run" for start and "updated_run" otherwise); handled is  *)
(* FALSE when the exception left the handler.                              *)

Body(run, pos, choice_id, level) ==
    [level |-> level, pos |-> pos, run |-> run, choice_id |-> choice_id, valid |-> TRUE]

NoJson == [level |-> JNull, pos |-> JNull, run |-> None, choice_id |-> "", valid |-> FALSE]

\* a faulty variant of _json_error: the status is not passed on
_json_error_Default(message, status) ==
    [ok |-> FALSE, status |-> 200, error |-> message, handled |-> TRUE,
     run |-> None, state |-> None, question |-> None, done |-> None, summary |-> None]

_json_error(message, status) ==
    [ok |-> FALSE, status |-> status, error |-> message, handled |-> TRUE,
     run |-> None, state |-> None, question |-> None, done |-> None, summary |-> None]

Unhandled(cls) ==
    [ok |-> FALSE, status |-> 500, error |-> cls, handled |-> FALSE,
     run |-> None, state |-> None, question |-> None, done |-> None, summary |-> None]

Success(token, st, q, done, summary) ==
    [ok |-> TRUE, status |-> 200, error |-> "", handled |-> TRUE,
     run |-> Some(token), state |-> Some(st), question |-> Some(q),
     done |-> done, summary |-> summary]

LevelMessage == "Level muss zwischen 1 und " \o ToString(Len(get_levels)) \o " liegen."

-----------------------------------------------------------------------------
(* Handlers.                                                               *)

\* POST /api/run/start
api_run_start(body, entropy) ==
    IF ~body.valid THEN _json_error("invalid_json", 400)
    ELSE LET lv == _safe_int(body.level, 0)
         IN  IF LevelsFailure = "QuizDataError" THEN _json_error(EligibleMessage, 400)
             ELSE IF LevelsFailure # "" THEN _json_error(LevelsFailure, 500)
             ELSE IF lv < 1 \/ lv > Len(get_levels) THEN _json_error(LevelMessage, 400)
             ELSE LET b == _build_run(lv, entropy)
                  IN  IF b.raises THEN _json_error(b.msg, 400)
                      ELSE LET runp == Get(b.runp)
                               run_token == _update_run_token(runp)
                               q == _question_payload(runp, 0)
                           IN  IF q.raises = "QuizDataError" THEN _json_error(q.msg, 400)
                               ELSE IF q.raises # "" THEN _json_error(q.msg, 500)
                               ELSE Success(run_token, _state_from_run(runp, 0), Get(q.q),
                                            None, None)

\* a faulty variant of ResumeViewPos: the frontier is shown
ResumeViewPos_Frontier(runp) == runp.next

\* api_run_resume: the position shown, the last answered one or 0
ResumeViewPos(runp) == IF runp.next > 0 THEN Max(0, runp.next - 1) ELSE 0

\* POST /api/run/resume
api_run_resume(body) ==
    IF ~body.valid THEN _json_error("invalid_json", 400)
    ELSE IF body.run = None THEN _json_error("run fehlt", 400)
    ELSE LET v == _validate_run_token(Get(body.run))
         IN  IF v.msg # "" THEN _json_error(v.msg, 400)
             ELSE LET runp == Get(v.runp)
                      view_pos == ResumeViewPos(runp)
                      q == _question_payload(runp, view_pos)
                      st == _state_from_run(runp, view_pos)
                  IN  IF q.raises = "QuizDataError" THEN _json_error(q.msg, 400)
                      ELSE IF q.raises # "" THEN Unhandled(q.raises)
                      ELSE Success(_update_run_token(runp), st, Get(q.q), Some(st.done),
                                   IF st.done THEN Some(_summary_from_run(runp)) ELSE None)

\* GET /api/levels: the levels without their character ids, and the number
\* of eligible characters
api_levels ==
    IF LevelsFailure # ""
    THEN [ok |-> FALSE, status |-> 500, handled |-> TRUE,
          error |-> IF LevelsFailure = "QuizDataError" THEN EligibleMessage ELSE LevelsFailure,
          levels |-> <<>>, eligible_total |-> 0]
    ELSE [ok |-> TRUE, status |-> 200, error |-> "", handled |-> TRUE,
          levels |-> [i \in 1..Len(get_levels) |->
                        [level |-> get_levels[i].level, questions |-> get_levels[i].questions]],
          eligible_total |-> Len(get_eligible_characters)]

\* GET /api/health
api_health ==
    IF LevelsFailure # ""
    THEN [ok |-> FALSE, status |-> 500, handled |-> TRUE,
          error |-> IF LevelsFailure = "QuizDataError" THEN EligibleMessage ELSE LevelsFailure]
    ELSE [ok |-> TRUE, status |-> 200, handled |-> TRUE, error |-> ""]

\* a faulty variant of NotUnlocked: one position too far is let through
NotUnlocked_OneAhead(runp, pos) == pos < 0 \/ pos > runp.next + 1

\* api_run_question: the position is not yet unlocked
NotUnlocked(runp, pos) == pos < 0 \/ pos > runp.next

\* POST /api/run/question
api_run_question(body) ==
    IF ~body.valid THEN _json_error("invalid_json", 400)
    ELSE IF body.run = None THEN _json_error("run fehlt", 400)
    ELSE LET pos == _safe_int(body.pos, 0)
             v == _validate_run_token(Get(body.run))
         IN  IF v.msg # "" THEN _json_error(v.msg, 400)
             ELSE LET runp == Get(v.runp)
                      q == _question_payload(runp, pos)
                  IN  IF NotUnlocked(runp, pos)
                      THEN _json_error("Diese Frage ist noch nicht freigeschaltet.", 400)
                      ELSE IF pos >= QUESTIONS_PER_LEVEL
                      THEN _json_error("Ungültige Frage-Position.", 400)
                      ELSE IF q.raises = "QuizDataError" THEN _json_error(q.msg, 400)
                      ELSE IF q.raises # "" THEN Unhandled(q.raises)
                      ELSE Success(_update_run_token(runp), _state_from_run(runp, pos),
                                   Get(q.q), None, None)

\* a faulty variant of IsNextOpen: answered positions are let through
IsNextOpen_UpTo(runp, pos) == pos <= runp.next

\* a faulty variant of IsNextOpen: the last question stays open
IsNextOpen_Last(runp, pos) == pos = runp.next \/ pos = QUESTIONS_PER_LEVEL - 1

\* api_run_answer: only the next open question can be answered
IsNextOpen(runp, pos) == pos = runp.next

\* a faulty variant of IsOption: every slug is let through
IsOption_AnySlug(qspec, choice_id) == ID_RE(choice_id)

\* api_run_answer: the choice is one of the question's options
IsOption(qspec, choice_id) == choice_id \in Range(qspec.opt)

\* faulty variants of StoreAnswer: the score counts every answer; a wrong
\* answer costs a point; the correctness flag is not written; the flag is
\* the truth value of the choice; the slot before is written as well
StoreAnswer_CountAll(runp, pos, choice_id) ==
    LET is_correct == choice_id = runp.qs[pos + 1].cid
    IN  [runp EXCEPT !.ans[pos + 1] = Some(choice_id),
                     !.ok[pos + 1] = Some(is_correct),
                     !.score = @ + 1,
                     !.next = @ + 1]

StoreAnswer_Penalty(runp, pos, choice_id) ==
    LET is_correct == choice_id = runp.qs[pos + 1].cid
    IN  [runp EXCEPT !.ans[pos + 1] = Some(choice_id),
                     !.ok[pos + 1] = Some(is_correct),
                     !.score = IF is_correct THEN @ + 1 ELSE Max(0, @ - 1),
                     !.next = @ + 1]

StoreAnswer_NoFlag(runp, pos, choice_id) ==
    LET is_correct == choice_id = runp.qs[pos + 1].cid
    IN  [runp EXCEPT !.ans[pos + 1] = Some(choice_id),
                     !.score = IF is_correct THEN @ + 1 ELSE @,
                     !.next = @ + 1]

StoreAnswer_Truthy(runp, pos, choice_id) ==
    LET is_correct == choice_id = runp.qs[pos + 1].cid
    IN  [runp EXCEPT !.ans[pos + 1] = Some(choice_id),
                     !.ok[pos + 1] = Some(choice_id # ""),
                     !.score = IF is_correct THEN @ + 1 ELSE @,
                     !.next = @ + 1]

StoreAnswer_Smear(runp, pos, choice_id) ==
    LET is_correct == choice_id = runp.qs[pos + 1].cid
    IN  [runp EXCEPT !.ans[pos + 1] = Some(choice_id),
                     !.ans[Max(1, pos)] = Some(choice_id),
                     !.ok[pos + 1] = Some(is_correct),
                     !.score = IF is_correct THEN @ + 1 ELSE @,
                     !.next = @ + 1]

\* a faulty variant of StoreAnswer: the cursor moves on after a right answer
\* only
StoreAnswer_Stay(runp, pos, choice_id) ==
    LET is_correct == choice_id = runp.qs[pos + 1].cid
    IN  [runp EXCEPT !.ans[pos + 1] = Some(choice_id),
                     !.ok[pos + 1] = Some(is_correct),
                     !.score = IF is_correct THEN @ + 1 ELSE @,
                     !.next = IF is_correct THEN @ + 1 ELSE @]

\* the run after the answer is stored: the assignments of api_run_answer
StoreAnswer(runp, pos, choice_id) ==
    LET is_correct == choice_id = runp.qs[pos + 1].cid
    IN  [runp EXCEPT !.ans[pos + 1] = Some(choice_id),
                     !.ok[pos + 1] = Some(is_correct),
                     !.score = IF is_correct THEN @ + 1 ELSE @,
                     !.next = @ + 1]

\* POST /api/run/answer
api_run_answer(body) ==
    IF ~body.valid THEN _json_error("invalid_json", 400)
    ELSE IF body.run = None THEN _json_error("run fehlt", 400)
    ELSE IF ~ID_RE(body.choice_id) THEN _json_error("Ungültige Auswahl.", 400)
    ELSE LET pos == _safe_int(body.pos, -1)
             v == _validate_run_token(Get(body.run))
         IN  IF v.msg # "" THEN _json_error(v.msg, 400)
             ELSE LET runp == Get(v.runp)
                  IN  IF ~IsNextOpen(runp, pos)
                      THEN _json_error("Nur die nächste offene Frage kann beantwortet werden.", 400)
                      ELSE IF pos < 0 \/ pos >= QUESTIONS_PER_LEVEL
                      THEN _json_error("Ungültige Frage-Position.", 400)
                      ELSE IF ~IsOption(runp.qs[pos + 1], body.choice_id)
                      THEN _json_error("Auswahl passt nicht zur Frage.", 400)
                      ELSE LET run2 == StoreAnswer(runp, pos, body.choice_id)
                               updated == _update_run_token(run2)
                               q == _question_payload(run2, pos)
                               st == _state_from_run(run2, pos)
                           IN  IF q.raises = "QuizDataError" THEN _json_error(q.msg, 400)
                               ELSE IF q.raises # "" THEN Unhandled(q.raises)
                               ELSE Success(updated, st, Get(q.q), Some(st.done),
                                            IF st.done THEN Some(_summary_from_run(run2))
                                            ELSE None)

-----------------------------------------------------------------------------
(* The client.  It stores the token of the last successful response, as    *)
(* the page's script does, and presents that token; an answer that was     *)
(* accepted it may send again with the token it sent before (an older      *)
(* copy).                                                                  *)

IsFalse(x) == x = Some(FALSE)
Wrongs(runp) == Len(SelectSeq(runp.ok, IsFalse))

\* the run a client reads in a token the server wrote
RunOf(tok) ==
    [Get(tok).p EXCEPT !.lvl = @.v, !.score = @.v, !.next = @.v, !.t0 = @.v]

\* the question at the frontier of a token's run, if there is one
HasFrontier(tok) == tok # None /\ RunOf(tok).next < QUESTIONS_PER_LEVEL
Frontier(tok) == RunOf(tok).qs[RunOf(tok).next + 1]

\* the first wrong option of a question, in display order
WrongOption(q) == q.opt[CHOOSE i \in 1..Len(q.opt) :
                           q.opt[i] # q.cid /\ \A j \in 1..(i - 1) : q.opt[j] = q.cid]

\* the positions a client sends with a token: none, a negative one, the
\* frontier, its two neighbours and the frontier and a half
PosInputs(tok) ==
    {JNull, JInt(-1)}
    \cup (IF tok = None THEN {}
          ELSE {JInt(RunOf(tok).next + d) : d \in {-1, 0, 1}}
               \cup {JFloat(2 * RunOf(tok).next + 1)})

\* an eligible character that is no option of the frontier question
NoOption(tok) ==
    IF HasFrontier(tok)
    THEN CHOOSE c \in Range(IdsOf(get_eligible_characters)) : c \notin Range(Frontier(tok).opt)
    ELSE "c17"

\* the choices a client sends with a token: the correct option, the first
\* wrong option while it has answered wrongly fewer than MaxWrong times, a
\* character that is no option, a slug of no character, a text that is no slug
ChoiceInputs(tok) ==
    {NoOption(tok), "zz-9", ""}
    \cup (IF HasFrontier(tok) THEN {Frontier(tok).cid} ELSE {})
    \cup (IF HasFrontier(tok) /\ Wrongs(RunOf(tok)) < MaxWrong
          THEN {WrongOption(Frontier(tok))} ELSE {})

\* an option a client sends with a position that is not the frontier
AnOption(tok) == IF HasFrontier(tok) THEN Frontier(tok).cid ELSE "c01"

\* the bodies a client posts with a token
QuestionBodies(tok) ==
    {Body(tok, pos, "", JNull) : pos \in PosInputs(tok)}
    \cup (IF tok = None THEN {NoJson} ELSE {})

AnswerBodies(tok) ==
    {Body(tok, pos, AnOption(tok), JNull) : pos \in PosInputs(tok)}
    \cup (IF tok = None THEN {NoJson}
          ELSE {Body(tok, JInt(RunOf(tok).next), c, JNull) : c \in ChoiceInputs(tok)})

ResumeBodies(tok) ==
    {Body(tok, JNull, "", JNull)} \cup (IF tok = None THEN {NoJson} ELSE {})

\* an accepted answer sent again with the older token, with the correct
\* option or the first wrong one
ReplayBodies ==
    IF req.op = "answer" /\ resp.ok
    THEN {Body(req.body.run, req.body.pos, c, JNull) :
             c \in {Frontier(req.body.run).cid}
                   \cup (IF Wrongs(RunOf(req.body.run)) < MaxWrong
                         THEN {WrongOption(Frontier(req.body.run))} ELSE {})}
    ELSE {}

\* the bodies a client posts to start a run: any level while it holds no
\* token, an existing level afterwards
StartBodies(tok) ==
    {Body(None, JNull, "", level) :
        level \in IF tok = None
                  THEN {JNull, JInt(-1), JInt(0), JInt(1), JInt(2), JInt(3),
                        JStr("2"), JStr("two"), JBool(TRUE)}
                  ELSE {JInt(1), JInt(2)}}
    \cup (IF tok = None THEN {NoJson} ELSE {})

\* the client sends a request and stores the token of a successful response
Exchange(op, body, r) ==
    /\ req' = [op |-> op, body |-> body, at |-> now]
    /\ resp' = r
    /\ held' = IF r.ok THEN r.run ELSE held
    /\ UNCHANGED <<dataset, app_secret, now, cache, calls, stack, disk>>

Receive(op, body, r) == Exchange(op, body, r) /\ UNCHANGED issued

\* the same, with the token the server wrote added to the history
Logged(op, body, r) ==
    /\ Exchange(op, body, r)
    /\ issued' = issued \cup (IF r.ok THEN r.run ELSE {})

Start(body, entropy) == Receive("start", body, api_run_start(body, entropy))

Resume(body) == Receive("resume", body, api_run_resume(body))

Question(body) == Receive("question", body, api_run_question(body))

Answer(body) == Receive("answer", body, api_run_answer(body))

NoResponse == _json_error("", 0)

Init ==
    /\ dataset = 1
    /\ app_secret = 0
    /\ now = 0
    /\ held = None
    /\ req = [op |-> "none", body |-> NoJson, at |-> 0]
    /\ resp = NoResponse
    /\ issued = {}
    /\ ColdStart

Next ==
    \/ \E body \in StartBodies(held), entropy \in 1..MaxEntropy : Start(body, entropy)
    \/ \E body \in ResumeBodies(held) : Resume(body)
    \/ \E body \in QuestionBodies(held) : Question(body)
    \/ \E body \in AnswerBodies(held) : Answer(body)
    \/ \E body \in ReplayBodies : Answer(body)

Spec == Init /\ [][Next]_vars

\* time passes: a second, or the tokens' maximal age; the clock reads at
\* most MaxSlack seconds past 0 and past the maximal age
Tick(d) ==
    /\ now + d <= RUN_TOKEN_MAX_AGE_S + MaxSlack
    /\ (now + d) % RUN_TOKEN_MAX_AGE_S <= MaxSlack
    /\ now' = now + d
    /\ UNCHANGED <<dataset, app_secret, held, req, resp, issued, cache, calls, stack, disk>>

\* a client that plays level 1, presents the token it stores and answers
\* correctly, while time passes
NextClock ==
    \/ \E d \in {1, RUN_TOKEN_MAX_AGE_S} : Tick(d)
    \/ \E level \in {1}, entropy \in 1..MaxEntropy :
          Start(Body(None, JNull, "", JInt(level)), entropy)
    \/ Resume(Body(held, JNull, "", JNull))
    \/ \E body \in QuestionBodies(held) : Question(body)
    \/ /\ HasFrontier(held)
       /\ Answer(Body(held, JInt(RunOf(held).next), Frontier(held).cid, JNull))

SpecClock == Init /\ [][NextClock]_vars

-----------------------------------------------------------------------------
(* A client that forges tokens.  It does not know the server's secret: it  *)
(* changes the token it stores and keeps the signature, puts the payload   *)
(* of another token the server wrote under the signature, or signs with a  *)
(* secret of its own.                                                      *)

ClientSecrets == {5}

\* the payloads a client makes of payload p
Mutations(p) ==
    {[p EXCEPT !.score = JInt(@.v + 1)],
     [p EXCEPT !.next = JInt(@.v + 1)],
     [p EXCEPT !.next = JInt(Max(0, @.v - 1)), !.score = JInt(@.v + 1)],
     [p EXCEPT !.lvl = JInt(@.v + 1)],
     [p EXCEPT !.t0 = JInt(@.v + 1)],
     [p EXCEPT !.rid = @ + 1],
     [p EXCEPT !.ok[1] = Some(TRUE), !.ans[1] = Some(p.qs[1].cid)],
     [p EXCEPT !.qs[QUESTIONS_PER_LEVEL].cid = p.qs[QUESTIONS_PER_LEVEL].opt[1],
               !.qs[QUESTIONS_PER_LEVEL].opt = <<p.qs[1].cid>> \o Tail(@)]}
    \ {p}

\* the tokens a client makes of token t: a changed payload under the
\* signature of t
Retouched(t) == {[t EXCEPT !.p = q] : q \in Mutations(t.p)}

\* the payload of another token the server wrote under the signature of t,
\* a changed signing time, kind or text, and tokens signed with a secret of
\* the client's
Forgeries(t) ==
    {[t EXCEPT !.p = u.p] : u \in {u \in issued : u.p # t.p}}
    \cup {[t EXCEPT !.ts = @ + 1], [t EXCEPT !.k = "session"], [t EXCEPT !.fmt = FALSE]}
    \cup {[t EXCEPT !.p = q, !.sig = Sign(c, t.k, q, t.ts)] :
              q \in Mutations(t.p), c \in ClientSecrets}
    \cup {[t EXCEPT !.sig = Sign(c, t.k, t.p, t.ts)] : c \in ClientSecrets}

\* the requests the client sends with a token it retouched
ForgedRequest(tok) ==
    \/ Logged("resume", Body(tok, JNull, "", JNull), api_run_resume(Body(tok, JNull, "", JNull)))
    \/ Logged("question", Body(tok, JInt(0), "", JNull),
              api_run_question(Body(tok, JInt(0), "", JNull)))
    \/ Logged("answer", Body(tok, JInt(RunOf(tok).next), AnOption(held), JNull),
              api_run_answer(Body(tok, JInt(RunOf(tok).next), AnOption(held), JNull)))

\* a client that starts level 1 once, plays it with right answers, resumes
\* and sends forged tokens
NextForge ==
    \/ /\ held = None
       /\ \E level \in {1}, entropy \in 1..MaxEntropy :
             Logged("start", Body(None, JNull, "", JInt(level)),
                    api_run_start(Body(None, JNull, "", JInt(level)), entropy))
    \/ /\ HasFrontier(held)
       /\ Logged("answer", Body(held, JInt(RunOf(held).next), Frontier(held).cid, JNull),
                 api_run_answer(Body(held, JInt(RunOf(held).next), Frontier(held).cid, JNull)))
    \/ /\ held # None
       /\ Logged("resume", Body(held, JNull, "", JNull),
                 api_run_resume(Body(held, JNull, "", JNull)))
    \/ /\ held # None
       /\ \E t \in Retouched(Get(held)) : ForgedRequest(Some(t))
    \/ /\ held # None
       /\ \E t \in Forgeries(Get(held)) :
             Logged("resume", Body(Some(t), JNull, "", JNull),
                    api_run_resume(Body(Some(t), JNull, "", JNull)))

SpecForge == Init /\ [][NextForge]_vars

-----------------------------------------------------------------------------
(* A server that is started again with another APP_SECRET while the client *)
(* keeps its token.  The new process has had no exchange yet.              *)

Restart(secret) ==
    /\ secret # app_secret
    /\ app_secret' = secret
    /\ req' = [op |-> "none", body |-> NoJson, at |-> now]
    /\ resp' = NoResponse
    /\ UNCHANGED <<dataset, now, held, issued, cache, calls, stack, disk>>

InitSecret ==
    /\ dataset = 1
    /\ app_secret \in AppSecrets
    /\ now = 0
    /\ held = None
    /\ req = [op |-> "none", body |-> NoJson, at |-> 0]
    /\ resp = NoResponse
    /\ issued = {}
    /\ ColdStart

NextSecret ==
    \/ \E secret \in AppSecrets : Restart(secret)
    \/ \E level \in {1}, entropy \in 1..MaxEntropy :
          Start(Body(None, JNull, "", JInt(level)), entropy)
    \/ Resume(Body(held, JNull, "", JNull))
    \/ /\ held # None
       /\ Question(Body(held, JInt(RunOf(held).next), "", JNull))
    \/ /\ HasFrontier(held)
       /\ Answer(Body(held, JInt(RunOf(held).next), Frontier(held).cid, JNull))

SpecSecret == InitSecret /\ [][NextSecret]_vars

-----------------------------------------------------------------------------
(* Processes with dataset files of several sizes.  A client asks for the   *)
(* levels, starts any of them and plays it with right answers.             *)

\* the client asks for the levels; the page keeps its token
Levels_Request ==
    /\ req' = [op |-> "levels", body |-> NoJson, at |-> now]
    /\ resp' = api_levels
    /\ UNCHANGED <<dataset, app_secret, now, held, issued, cache, calls, stack, disk>>

\* the client asks for the health of the process
Health_Request ==
    /\ req' = [op |-> "health", body |-> NoJson, at |-> now]
    /\ resp' = api_health
    /\ UNCHANGED <<dataset, app_secret, now, held, issued, cache, calls, stack, disk>>

InitLevels ==
    /\ dataset \in DOMAIN Datasets
    /\ app_secret \in AppSecrets
    /\ now = 0
    /\ held = None
    /\ req = [op |-> "none", body |-> NoJson, at |-> 0]
    /\ resp = NoResponse
    /\ issued = {}
    /\ ColdStart

NextLevels ==
    \/ Levels_Request
    \/ Health_Request
    \/ \E level \in 0..4, entropy \in 1..MaxEntropy :
          Start(Body(None, JNull, "", JInt(level)), entropy)
    \/ /\ held # None
       /\ Resume(Body(held, JNull, "", JNull))
    \/ /\ HasFrontier(held)
       /\ Answer(Body(held, JInt(RunOf(held).next), Frontier(held).cid, JNull))

SpecLevels == InitLevels /\ [][NextLevels]_vars

-----------------------------------------------------------------------------
(* Requests that arrive together at a process that has computed nothing    *)
(* yet.                                                                    *)

\* what a step inside the process leaves alone
outside == <<dataset, app_secret, now, held, req, resp, issued, disk>>

NextCache ==
    \/ \E t \in Threads : Request(t) /\ UNCHANGED outside
    \/ \E t \in Threads : Lookup(t) /\ UNCHANGED outside
    \/ \E t \in Threads : Descend(t) /\ UNCHANGED outside
    \/ \E t \in Threads : Store(t) /\ UNCHANGED outside

SpecCache == Init /\ [][NextCache]_vars

-----------------------------------------------------------------------------
(* A process that is started again with another dataset file while the     *)
(* client keeps its token.  With an APP_SECRET the token stays valid.      *)

Redeploy(d) ==
    /\ held # None
    /\ d # dataset
    /\ dataset' = d
    /\ disk' = d
    /\ req' = [op |-> "none", body |-> NoJson, at |-> now]
    /\ resp' = NoResponse
    /\ UNCHANGED <<app_secret, now, held, issued, cache, calls, stack>>

InitDeploy ==
    /\ dataset = 1
    /\ app_secret \in AppSecrets
    /\ now = 0
    /\ held = None
    /\ req = [op |-> "none", body |-> NoJson, at |-> 0]
    /\ resp = NoResponse
    /\ issued = {}
    /\ ColdStart

NextDeploy ==
    \/ \E d \in DOMAIN Datasets : Redeploy(d)
    \/ /\ held = None
       /\ \E level \in {1}, entropy \in 1..MaxEntropy :
          Start(Body(None, JNull, "", JInt(level)), entropy)
    \/ Resume(Body(held, JNull, "", JNull))
    \/ Question(Body(held, JInt(0), "", JNull))
    \/ /\ HasFrontier(held)
       /\ Answer(Body(held, JInt(RunOf(held).next), Frontier(held).cid, JNull))
    \/ Levels_Request
    \/ Health_Request

SpecDeploy == InitDeploy /\ [][NextDeploy]_vars

-----------------------------------------------------------------------------
(* A process whose dataset file is edited, removed or put back while it    *)
(* runs.  load_dataset reads the file at the first request that needs it;  *)
(* lru_cache keeps a result and keeps no exception, so a body that raised  *)
(* runs again at the next request.  The process has an APP_SECRET: without *)
(* one its secret is the digest of the file at import time, which is not   *)
(* the content a later load_dataset reads.                                 *)

\* a faulty variant of Content: the file is read at every request
Content_Reread == disk

\* load_dataset(): the content a request works on
Content == IF cache["load_dataset"] THEN dataset ELSE disk

\* the cached functions that hold a result after a request for the levels
\* has worked on content c
Filled(c) ==
    [f \in Cached |->
        \/ cache[f]
        \/ /\ Datasets[c].exists
           /\ f # "load_dataset" => Len(ValidCache[c]) >= 3
           /\ f \in {"get_eligible_characters", "get_levels"} => Len(EligibleCache[c]) >= 3]

\* the calls of get_levels() in a handler
NeedLevels ==
    /\ dataset' = Content
    /\ cache' = Filled(Content)
    /\ UNCHANGED <<app_secret, now, issued, calls, stack, disk>>

\* the file is written between two exchanges
EditFile(d) ==
    /\ d # disk
    /\ disk' = d
    /\ req' = [op |-> "none", body |-> NoJson, at |-> now]
    /\ resp' = NoResponse
    /\ UNCHANGED <<dataset, app_secret, now, held, issued, cache, calls, stack>>

Levels_Lazy ==
    /\ NeedLevels
    /\ req' = [op |-> "levels", body |-> NoJson, at |-> now]
    /\ resp' = api_levels'
    /\ UNCHANGED held

Health_Lazy ==
    /\ NeedLevels
    /\ req' = [op |-> "health", body |-> NoJson, at |-> now]
    /\ resp' = api_health'
    /\ UNCHANGED held

Start_Lazy(body, entropy) ==
    /\ NeedLevels
    /\ req' = [op |-> "start", body |-> body, at |-> now]
    /\ resp' = api_run_start(body, entropy)'
    /\ held' = IF resp'.ok THEN resp'.run ELSE held

InitEdit ==
    /\ dataset \in DOMAIN Datasets
    /\ app_secret \in AppSecrets \ {0}
    /\ now = 0
    /\ held = None
    /\ req = [op |-> "none", body |-> NoJson, at |-> 0]
    /\ resp = NoResponse
    /\ issued = {}
    /\ ColdStart

NextEdit ==
    \/ \E d \in DOMAIN Datasets : EditFile(d)
    \/ Levels_Lazy
    \/ Health_Lazy
    \/ \E level \in 1..2, entropy \in 1..MaxEntropy :
          Start_Lazy(Body(None, JNull, "", JInt(level)), entropy)

SpecEdit == InitEdit /\ [][NextEdit]_vars

-----------------------------------------------------------------------------
(* Run requests that a process serves in threads, step by step.  The frame *)
(* of a thread holds the local variables of the handler it runs: the body  *)
(* it was sent and runp, the dictionary _validate_run_token made from the  *)
(* token.  The client sends a request with the token it stores at that     *)
(* moment, so that requests in progress carry the same token or different  *)
(* tokens of the run.                                                      *)

\* the client sends requests for a run until the run has this many answers
MaxAnswers == 2

\* a faulty variant of OwnRun: runs with the same rid are one object
OwnRun_ByRid(t, u) ==
    /\ stack[u] # <<>>
    /\ stack[u][1].runp # None
    /\ Get(stack[u][1].runp).rid = Get(stack[t][1].runp).rid

\* runp is a local variable: the assignments of the handler in thread t
\* write the run in the frame of thread u only if u is t
OwnRun(t, u) == u = t

\* the requests a client sends with a token: resume, the first question, a
\* question that is not unlocked, the right answer and an answer past the
\* frontier
ThreadRequests(tok) ==
    IF tok = None THEN {}
    ELSE IF RunOf(tok).next >= MaxAnswers THEN {}
    ELSE {<<"resume", Body(tok, JNull, "", JNull)>>,
          <<"question", Body(tok, JInt(0), "", JNull)>>,
          <<"question", Body(tok, JInt(RunOf(tok).next + 1), "", JNull)>>,
          <<"answer", Body(tok, JInt(RunOf(tok).next), Frontier(tok).cid, JNull)>>,
          <<"answer", Body(tok, JInt(RunOf(tok).next + 1), Frontier(tok).cid, JNull)>>}

\* the handler's checks before the token is decoded, and the decoding: the
\* error it returns, or NoResponse
Entry(op, body) ==
    IF ~body.valid THEN _json_error("invalid_json", 400)
    ELSE IF body.run = None THEN _json_error("run fehlt", 400)
    ELSE IF op = "answer" /\ ~ID_RE(body.choice_id) THEN _json_error("Ungültige Auswahl.", 400)
    ELSE IF _validate_run_token(Get(body.run)).msg # ""
    THEN _json_error(_validate_run_token(Get(body.run)).msg, 400)
    ELSE NoResponse

\* the handler's checks of the position and the choice against runp: the
\* error it returns, or NoResponse
Guarded(op, body, runp) ==
    IF op = "question"
    THEN IF NotUnlocked(runp, _safe_int(body.pos, 0))
         THEN _json_error("Diese Frage ist noch nicht freigeschaltet.", 400)
         ELSE IF _safe_int(body.pos, 0) >= QUESTIONS_PER_LEVEL
         THEN _json_error("Ungültige Frage-Position.", 400)
         ELSE NoResponse
    ELSE IF op = "answer"
    THEN LET pos == _safe_int(body.pos, -1)
         IN  IF ~IsNextOpen(runp, pos)
             THEN _json_error("Nur die nächste offene Frage kann beantwortet werden.", 400)
             ELSE IF pos < 0 \/ pos >= QUESTIONS_PER_LEVEL
             THEN _json_error("Ungültige Frage-Position.", 400)
             ELSE IF ~IsOption(runp.qs[pos + 1], body.choice_id)
             THEN _json_error("Auswahl passt nicht zur Frage.", 400)
             ELSE NoResponse
    ELSE NoResponse

\* the response a handler builds from runp as it is when the handler gets
\* there
Rendered(op, body, runp) ==
    LET pos == IF op = "resume" THEN ResumeViewPos(runp)
               ELSE IF op = "question" THEN _safe_int(body.pos, 0)
               ELSE _safe_int(body.pos, -1)
        q == _question_payload(runp, pos)
        st == _state_from_run(runp, pos)
    IN  IF q.raises = "QuizDataError" THEN _json_error(q.msg, 400)
        ELSE IF q.raises # "" THEN Unhandled(q.raises)
        ELSE IF op = "question"
        THEN Success(_update_run_token(runp), st, Get(q.q), None, None)
        ELSE Success(_update_run_token(runp), st, Get(q.q), Some(st.done),
                     IF st.done THEN Some(_summary_from_run(runp)) ELSE None)

\* the thread's reply reaches the client, which stores the token of a
\* successful response
Reply(t, r) ==
    /\ req' = [op |-> stack[t][1].fn, body |-> stack[t][1].body, at |-> now]
    /\ resp' = r
    /\ held' = IF r.ok THEN r.run ELSE held
    /\ stack' = [stack EXCEPT ![t] = <<>>]
    /\ UNCHANGED <<dataset, app_secret, now, issued, cache, calls, disk>>

\* a request arrives at an idle thread: the handler reads the body, decodes
\* the token into runp and checks the position and the choice; it returns an
\* error or goes on
Arrive(t, op, body) ==
    /\ stack[t] = <<>>
    /\ LET v == _validate_run_token(Get(body.run))
           r == IF Entry(op, body) # NoResponse THEN Entry(op, body)
                ELSE Guarded(op, body, Get(v.runp))
       IN  IF r # NoResponse
           THEN /\ req' = [op |-> op, body |-> body, at |-> now]
                /\ resp' = r
                /\ UNCHANGED <<dataset, app_secret, now, held, issued, cache, calls,
                               stack, disk>>
           ELSE /\ stack' = [stack EXCEPT ![t] =
                                <<[fn |-> op, body |-> body, runp |-> v.runp,
                                   pc |-> IF op = "answer" THEN "store" ELSE "render"]>>]
                /\ UNCHANGED <<dataset, app_secret, now, held, req, resp, issued,
                               cache, calls, disk>>

\* api_run_answer writes the answer into runp
StoreStep(t) ==
    /\ stack[t] # <<>> /\ stack[t][1].pc = "store"
    /\ LET f == stack[t][1]
           run2 == StoreAnswer(Get(f.runp), _safe_int(f.body.pos, -1), f.body.choice_id)
       IN  stack' = [u \in Threads |->
                        IF u = t THEN <<[f EXCEPT !.runp = Some(run2), !.pc = "render"]>>
                        ELSE IF OwnRun(t, u) THEN <<[stack[u][1] EXCEPT !.runp = Some(run2)]>>
                        ELSE stack[u]]
    /\ UNCHANGED <<dataset, app_secret, now, held, req, resp, issued, cache, calls, disk>>

\* the handler encodes runp, builds the question and returns
Render(t) ==
    /\ stack[t] # <<>> /\ stack[t][1].pc = "render"
    /\ Reply(t, Rendered(stack[t][1].fn, stack[t][1].body, Get(stack[t][1].runp)))

\* the client starts a run when it has none
NewRun(body, entropy) ==
    /\ held = None
    /\ Start(body, entropy)

NextThreads ==
    \/ \E body \in {Body(None, JNull, "", JInt(1))}, entropy \in 1..MaxEntropy :
          NewRun(body, entropy)
    \/ \E t \in Threads : \E r \in ThreadRequests(held) : Arrive(t, r[1], r[2])
    \/ \E t \in Threads : StoreStep(t)
    \/ \E t \in Threads : Render(t)

SpecThreads == Init /\ [][NextThreads]_vars

-----------------------------------------------------------------------------------------------------------------------------------------------------
(* A client that plays its run to the end.  It starts a level when it has  *)
(* no run or a complete one, looks at the run and at questions, and        *)
(* answers the frontier question with the option that is shown first,      *)
(* which is the right one or a wrong one as the options were shuffled.     *)
(* The client keeps answering: the answer to the frontier question is not  *)
(* put off for ever.                                                       *)

NewLevel(body, entropy) ==
    /\ held # None => RunOf(held).next = QUESTIONS_PER_LEVEL
    /\ Start(body, entropy)

\* the Answer exchange with the first option of the frontier question
AnswerFrontier ==
    /\ HasFrontier(held)
    /\ req' = [op |-> "answer", at |-> now,
               body |-> Body(held, JInt(RunOf(held).next), Frontier(held).opt[1], JNull)]
    /\ resp' = api_run_answer(req'.body)
    /\ held' = IF resp'.ok THEN resp'.run ELSE held
    /\ UNCHANGED <<dataset, app_secret, now, issued, cache, calls, stack, disk>>

NextPlay ==
    \/ \E body \in {Body(None, JNull, "", JInt(lv)) : lv \in 1..2}, entropy \in 1..MaxEntropy :
          NewLevel(body, entropy)
    \/ \E body \in ResumeBodies(held) : Resume(body)
    \/ \E body \in QuestionBodies(held) : Question(body)
    \/ AnswerFrontier

SpecPlay == Init /\ [][NextPlay]_vars /\ WF_vars(AnswerFrontier)

-----------------------------------------------------------------------------
(* The decoder on the tokens it may be given: payloads that lack a field,  *)
(* whose arrays are too short or too long or whose cursor is out of range  *)
(* or no number, signed by the server or by someone else, now or longer    *)
(* ago than the maximal age, with the tag "run" or another, as a text that *)
(* matches TOKEN_RE or does not.                                           *)

\* payload p without the key f
Without(p, f) == [k \in DOMAIN p \ {f} |-> p[k]]

\* the payloads made of payload p
Defects(p) ==
    {p, Without(p, "v")}
    \cup {Without(p, f) : f \in {"rid", "lvl", "score", "next", "qs", "ans", "ok", "t0"}}
    \cup {[p EXCEPT !.qs = SubSeq(@, 1, QUESTIONS_PER_LEVEL - 1)],
          [p EXCEPT !.qs = Append(@, p.qs[1])],
          [p EXCEPT !.ans = SubSeq(@, 1, QUESTIONS_PER_LEVEL - 1)],
          [p EXCEPT !.ans = Append(@, None)],
          [p EXCEPT !.ok = SubSeq(@, 1, QUESTIONS_PER_LEVEL - 1)],
          [p EXCEPT !.ok = Append(@, None)]}
    \cup {[p EXCEPT !.next = n] :
             n \in {JInt(-1), JInt(QUESTIONS_PER_LEVEL), JInt(QUESTIONS_PER_LEVEL + 1), JNull,
                    JStr("7"), JStr("16"), JFloat(2 * QUESTIONS_PER_LEVEL + 1)}}
    \cup {Without([p EXCEPT !.qs = SubSeq(@, 1, QUESTIONS_PER_LEVEL - 1)], "rid"),
          [p EXCEPT !.qs = Append(@, p.qs[1]), !.next = JInt(QUESTIONS_PER_LEVEL + 1)],
          [p EXCEPT !.ans = Append(@, None), !.ok = SubSeq(@, 1, QUESTIONS_PER_LEVEL - 1)]}

\* the tokens made of payload p
Candidates(p) ==
    {[fmt |-> f, k |-> kind, p |-> q, ts |-> ts, sig |-> Sign(s, kind, q, ts)] :
        f \in BOOLEAN, kind \in {"run", "session"}, q \in Defects(p),
        ts \in {now, now - RUN_TOKEN_MAX_AGE_S, now - RUN_TOKEN_MAX_AGE_S - 1},
        s \in {_dataset_secret} \cup ClientSecrets}

\* the first character asked for in a level-1 run
DecodeChoices ==
    {Drawn[dataset][_dataset_secret][1][entropy].qs[1].cid : entropy \in 1..MaxEntropy}

InitDecode ==
    /\ dataset = 1
    /\ app_secret \in AppSecrets
    /\ now = RUN_TOKEN_MAX_AGE_S + 1
    /\ held \in {Some(t) : t \in UNION {Candidates(json_dumps(Get(_build_run(1, entropy).runp))) :
                                            entropy \in 1..MaxEntropy}}
    /\ req = [op |-> "none", body |-> NoJson, at |-> now]
    /\ resp = NoResponse
    /\ issued = {}
    /\ ColdStart

NextDecode ==
    \/ Resume(Body(held, JNull, "", JNull))
    \/ \E pos \in 0..1 : Question(Body(held, JInt(pos), "", JNull))
    \/ \E c \in DecodeChoices \cup {"zz-9"} : Answer(Body(held, JInt(0), c, JNull))
    \/ \E level \in {0}, entropy \in 1..MaxEntropy :
          Start(Body(None, JNull, "", JInt(level)), entropy)

SpecDecode == InitDecode /\ [][NextDecode]_vars

-----------------------------------------------------------------------------
(* Properties of the last exchange: the request the client sent and the    *)
(* response it received.                                                   *)

\* the token the last request presented, the run it holds and the run of
\* the token the response issued
Presented == req.body.run
PRun == RunOf(Presented)
IRun == RunOf(resp.run)
TookToken == req.op \in {"resume", "question", "answer"} /\ Presented # None
\* the position the handler of the last request read
AnswerPos == _safe_int(req.body.pos, -1)
ViewPos == _safe_int(req.body.pos, 0)

\* the response carries nothing of a run
NothingIssued ==
    /\ ~resp.ok
    /\ resp.status = 400
    /\ resp.run = None /\ resp.state = None /\ resp.question = None

\* C1: an Answer whose position is not the run's next (lower, higher,
\* negative or missing) is rejected and issues no token; and after a
\* successful Answer at p, answering p again with the issued token is
\* rejected, whichever option is chosen
Claim_C1 ==
    /\ (req.op = "answer" /\ Presented # None /\ AnswerPos # PRun.next)
          => NothingIssued
    /\ (req.op = "answer" /\ resp.ok)
          => \A c \in Range(PRun.qs[AnswerPos + 1].opt) :
                LET again == api_run_answer(Body(resp.run, req.body.pos, c, JNull))
                IN  ~again.ok /\ again.status = 400 /\ again.run = None

\* an Answer at the position before the next one was rejected
Witness_C1 ==
    /\ req.op = "answer" /\ Presented # None
    /\ PRun.next >= 1 /\ req.body.pos = JInt(PRun.next - 1)
    /\ ID_RE(req.body.choice_id)
    /\ ~resp.ok /\ held = Presented

\* C2: a successful Answer at pos writes the choice to ans[pos] and whether
\* it equals the question's character to ok[pos], adds 1 to score exactly
\* when it does, adds 1 to next and leaves everything else of the run as
\* it was; an option of the next question sent at the next position
\* succeeds; answering question 0 of a level-1 run correctly gives score 1
\* and next 1
Claim_C2 ==
    /\ (/\ req.op = "answer" /\ Presented # None /\ HasFrontier(Presented)
        /\ AnswerPos = PRun.next
        /\ req.body.choice_id \in Range(Frontier(Presented).opt))
          => resp.ok
    /\ (req.op = "answer" /\ resp.ok)
          => LET i == AnswerPos + 1
                 hit == req.body.choice_id = PRun.qs[i].cid
             IN  /\ IRun.ans[i] = Some(req.body.choice_id)
                 /\ IRun.ok[i] = Some(hit)
                 /\ IRun.score = PRun.score + (IF hit THEN 1 ELSE 0)
                 /\ IRun.next = PRun.next + 1
                 /\ DOMAIN IRun = DOMAIN PRun
                 /\ \A f \in DOMAIN PRun \ {"ans", "ok", "score", "next"} :
                        IRun[f] = PRun[f]
                 /\ Len(IRun.ans) = Len(PRun.ans) /\ Len(IRun.ok) = Len(PRun.ok)
                 /\ \A j \in 1..Len(PRun.ans) \ {i} :
                        IRun.ans[j] = PRun.ans[j] /\ IRun.ok[j] = PRun.ok[j]
                 /\ (PRun.lvl = 1 /\ PRun.next = 0 /\ hit)
                      => /\ Get(resp.state).score = 1
                         /\ Get(resp.state).next = 1

\* question 0 of a level-1 run was answered correctly
Witness_C2 ==
    /\ req.op = "answer" /\ resp.ok
    /\ PRun.lvl = 1 /\ PRun.next = 0 /\ PRun.score = 0
    /\ req.body.choice_id = PRun.qs[1].cid
    /\ Get(resp.state).score = 1

\* C3: an Answer at the next position whose choice is none of the
\* question's options is rejected and issues no token
Claim_C3 ==
    (/\ req.op = "answer" /\ Presented # None /\ HasFrontier(Presented)
     /\ AnswerPos = PRun.next
     /\ req.body.choice_id \notin Range(Frontier(Presented).opt))
       => NothingIssued

\* a character that is no option of the next question was chosen
Witness_C3 ==
    /\ req.op = "answer" /\ Presented # None /\ HasFrontier(Presented)
    /\ req.body.pos = JInt(PRun.next)
    /\ req.body.choice_id \in Range(IdsOf(get_eligible_characters))
    /\ req.body.choice_id \notin Range(Frontier(Presented).opt)
    /\ ~resp.ok /\ held = Presented

\* C4: no Resume, View or Answer issues a run whose next or score is below
\* that of the run it was given
Claim_C4 ==
    (TookToken /\ resp.ok)
      => /\ IRun.next >= PRun.next
         /\ IRun.score >= PRun.score
         /\ held = resp.run

\* a wrong answer was stored for a run that had points already
Witness_C4 ==
    /\ req.op = "answer" /\ resp.ok
    /\ PRun.score >= 1
    /\ req.body.choice_id # PRun.qs[AnswerPos + 1].cid
    /\ IRun.score = PRun.score /\ IRun.next = PRun.next + 1

\* C5: in every run the client holds, ans[i] is written exactly when ok[i]
\* is written, exactly when i is below next
Claim_C5 ==
    held # None
      => LET runp == RunOf(held)
         IN  \A i \in 0..(QUESTIONS_PER_LEVEL - 1) :
                /\ (runp.ans[i + 1] # None) <=> (i < runp.next)
                /\ (runp.ok[i + 1] # None) <=> (i < runp.next)

\* a run with questions answered and questions open
Witness_C5 ==
    /\ held # None
    /\ RunOf(held).next = 7
    /\ RunOf(held).ans[7] # None /\ RunOf(held).ans[8] = None

\* C6: in every run the client holds, score is the number of true flags in
\* ok, and 0 <= score <= next <= QUESTIONS_PER_LEVEL
Claim_C6 ==
    held # None
      => LET runp == RunOf(held)
         IN  /\ runp.score = Cardinality({i \in 1..Len(runp.ok) : runp.ok[i] = Some(TRUE)})
             /\ 0 <= runp.score
             /\ runp.score <= runp.next
             /\ runp.next <= QUESTIONS_PER_LEVEL

\* a complete run with a wrong answer in it
Witness_C6 ==
    /\ held # None
    /\ RunOf(held).next = QUESTIONS_PER_LEVEL
    /\ RunOf(held).score = QUESTIONS_PER_LEVEL - 1
    /\ \E i \in 1..QUESTIONS_PER_LEVEL : RunOf(held).ok[i] = Some(FALSE)

\* C8: a View at a position above next, at or above QUESTIONS_PER_LEVEL or
\* below 0 is rejected; a View that succeeds shows a question of the run
\* at a position up to next; of a token just issued, exactly the positions
\* from 0 to next, and below QUESTIONS_PER_LEVEL, can be viewed
Claim_C8 ==
    /\ (/\ req.op = "question" /\ Presented # None
        /\ (ViewPos > PRun.next \/ ViewPos >= QUESTIONS_PER_LEVEL \/ ViewPos < 0))
          => NothingIssued
    /\ (req.op = "question" /\ resp.ok)
          => LET pos == Get(resp.state).pos
             IN  /\ 0 <= pos /\ pos <= PRun.next /\ pos < QUESTIONS_PER_LEVEL
                 /\ pos = ViewPos
                 /\ Get(resp.question).pos = pos
                 /\ Get(resp.question).options
                      = [i \in 1..Len(PRun.qs[pos + 1].opt) |->
                           [id |-> PRun.qs[pos + 1].opt[i],
                            text |-> NameOf(PRun.qs[pos + 1].opt[i])]]
    /\ (req.op \in {"start", "answer"} /\ resp.ok)
          => \A p \in (-1)..(QUESTIONS_PER_LEVEL + 1) :
                api_run_question(Body(resp.run, JInt(p), "", JNull)).ok
                  <=> (0 <= p /\ p <= IRun.next /\ p < QUESTIONS_PER_LEVEL)

\* a View one position past the next one was rejected
Witness_C8 ==
    /\ req.op = "question" /\ Presented # None
    /\ req.body.pos = JInt(PRun.next + 1)
    /\ PRun.next + 1 < QUESTIONS_PER_LEVEL
    /\ ~resp.ok /\ held = Presented

\* C10: a Resume, View or Answer issues a run with the questions of the run
\* it was given and with every written answer and flag of that run; the
\* questions of every run the client holds are those Start drew for it
Claim_C10 ==
    /\ (TookToken /\ resp.ok)
          => /\ IRun.qs = PRun.qs
             /\ IRun.rid = PRun.rid
             /\ \A i \in 1..QUESTIONS_PER_LEVEL :
                    /\ PRun.ans[i] # None => IRun.ans[i] = PRun.ans[i]
                    /\ PRun.ok[i] # None => IRun.ok[i] = PRun.ok[i]
    /\ held # None
          => RunOf(held).qs
               = Drawn[dataset][_dataset_secret][RunOf(held).lvl][RunOf(held).rid].qs

\* an answer was stored in a run that had answers already
Witness_C10 ==
    /\ req.op = "answer" /\ resp.ok
    /\ PRun.next >= 2
    /\ IRun.ans[1] = PRun.ans[1] /\ IRun.ans[PRun.next + 1] # None

\* C7: a successful View or Resume issues a token of the same kind and
\* key whose run is the run it was given, field for field; only the
\* signing time is new, the time of the request
Claim_C7 ==
    (req.op \in {"resume", "question"} /\ resp.ok)
      => /\ IRun = PRun
         /\ Get(resp.run).k = Get(Presented).k
         /\ Get(resp.run).sig.key = Get(Presented).sig.key
         /\ Get(resp.run).fmt = Get(Presented).fmt
         /\ Get(resp.run).ts = req.at
         /\ Get(resp.run).ts >= Get(Presented).ts

\* an answered question was viewed after the token was signed and after
\* the run was started
Witness_C7 ==
    /\ req.op = "question" /\ resp.ok
    /\ PRun.next >= 1 /\ Get(resp.question).answered
    /\ Get(resp.run).ts > Get(Presented).ts
    /\ PRun.t0 < Get(Presented).ts

\* C9: when an Answer that succeeded is sent again with the same token and
\* position, it is rejected or it issues a run of the same id that records
\* the answer, the flag and the score the first one recorded
Claim_C9 ==
    [][(/\ req.op = "answer" /\ resp.ok
        /\ req'.op = "answer" /\ resp'.ok
        /\ req'.body.run = req.body.run
        /\ req'.body.pos = req.body.pos)
         => LET first == RunOf(resp.run)
                second == RunOf(resp'.run)
                i == AnswerPos + 1
            IN  first.rid = second.rid
                  => /\ second.ans[i] = first.ans[i]
                     /\ second.ok[i] = first.ok[i]
                     /\ second.score = first.score]_vars

\* C11: the Answer that completes a run reports done and a summary whose
\* correct_n is the number of positions where the recorded choice is the
\* question's character, which is the run's score, and whose accuracy is
\* correct_n / QUESTIONS_PER_LEVEL
Claim_C11 ==
    (req.op = "answer" /\ resp.ok /\ IRun.next = QUESTIONS_PER_LEVEL)
      => LET hits == {i \in 1..QUESTIONS_PER_LEVEL : IRun.ans[i] = Some(IRun.qs[i].cid)}
         IN  /\ resp.done = Some(TRUE)
             /\ resp.summary # None
             /\ Get(resp.summary).correct_n = Cardinality(hits)
             /\ Get(resp.summary).correct_n = IRun.score
             /\ Get(resp.summary).score = IRun.score
             /\ Get(resp.summary).accuracy
                  = [num |-> Cardinality(hits), den |-> QUESTIONS_PER_LEVEL]

\* a run was completed with a wrong answer in it
Witness_C11 ==
    /\ req.op = "answer" /\ resp.ok /\ IRun.next = QUESTIONS_PER_LEVEL
    /\ resp.summary # None
    /\ Get(resp.summary).correct_n = QUESTIONS_PER_LEVEL - 1

\* C12: every state object has done exactly when next is
\* QUESTIONS_PER_LEVEL; an Answer reports done and carries a summary
\* exactly when it recorded the answer of the last position; a Resume
\* reports done and carries a summary exactly when the presented run is
\* complete; Start and View carry neither
Claim_C12 ==
    /\ resp.state # None
          => /\ Get(resp.state).next = IRun.next
             /\ Get(resp.state).next <= QUESTIONS_PER_LEVEL
             /\ Get(resp.state).done = (Get(resp.state).next = QUESTIONS_PER_LEVEL)
    /\ (req.op = "answer" /\ resp.ok)
          => /\ resp.done = Some(AnswerPos = QUESTIONS_PER_LEVEL - 1)
             /\ (resp.summary # None) <=> (AnswerPos = QUESTIONS_PER_LEVEL - 1)
    /\ (req.op = "resume" /\ resp.ok)
          => /\ resp.done = Some(PRun.next = QUESTIONS_PER_LEVEL)
             /\ (resp.summary # None) <=> (PRun.next = QUESTIONS_PER_LEVEL)
    /\ (req.op \in {"start", "question"} /\ resp.ok)
          => resp.done = None /\ resp.summary = None

\* a complete run was resumed
Witness_C12 ==
    /\ req.op = "resume" /\ resp.ok
    /\ PRun.next = QUESTIONS_PER_LEVEL
    /\ resp.done = Some(TRUE) /\ resp.summary # None

\* C13: a question object shows the selected id, the correct id and the
\* correctness flag exactly when its position is answered in the run
\* (position < next); for an open position answered is false and the three
\* are empty; the character's source and attribution are there in both cases
Claim_C13 ==
    resp.question # None
      => LET q == Get(resp.question)
             i == q.pos + 1
             ch == _find_character(IRun.qs[i].cid)[1]
         IN  /\ q.answered <=> (q.pos < IRun.next)
             /\ q.answered
                  => /\ q.selected_id = IRun.ans[i]
                     /\ q.selected_id # None
                     /\ q.correct_id = Some(IRun.qs[i].cid)
                     /\ q.correct = Some(IRun.ans[i] = Some(IRun.qs[i].cid))
                     /\ q.correct = IRun.ok[i]
             /\ ~q.answered
                  => q.selected_id = None /\ q.correct_id = None /\ q.correct = None
             /\ q.source = [attribution |-> ch.source.attribution,
                            page_url |-> ch.source.page_url]
             /\ q.attribution = ch.source.attribution /\ q.attribution # ""
             /\ q.page_url = ch.source.page_url /\ q.page_url # ""

\* the open position of a run with answers was viewed
Witness_C13 ==
    /\ req.op = "question" /\ resp.ok
    /\ PRun.next >= 1 /\ ViewPos = PRun.next
    /\ ~Get(resp.question).answered
    /\ Get(resp.question).correct_id = None
    /\ Get(resp.question).attribution # ""

\* the messages of _validate_run_token, by cause
ExpiredMessage == "Run-Token ist abgelaufen. Bitte starte das Level neu."
InvalidMessage == "Run-Token ist ungültig. Bitte starte das Level neu."
IncompleteMessage == "Run-Token ist unvollständig. Bitte starte das Level neu."

\* the presented token carries the signature the current secret gives it
WellSigned(tok) ==
    Get(tok).sig = Sign(_dataset_secret, Get(tok).k, Get(tok).p, Get(tok).ts)

\* the age of the presented token at the time of the request
Age == req.at - Get(Presented).ts

\* C14: a token signed longer ago than RUN_TOKEN_MAX_AGE_S is rejected by
\* Resume, View and Answer as expired although its signature is right, and
\* nothing is issued for it; a request that succeeds presented a token
\* that is not older
Claim_C14 ==
    /\ (TookToken /\ WellSigned(Presented) /\ Age > RUN_TOKEN_MAX_AGE_S)
          => NothingIssued /\ resp.error = ExpiredMessage
    /\ (TookToken /\ resp.ok) => Age <= RUN_TOKEN_MAX_AGE_S

\* an answer was sent with a token one second older than allowed
Witness_C14 ==
    /\ req.op = "answer" /\ Presented # None /\ WellSigned(Presented)
    /\ Age = RUN_TOKEN_MAX_AGE_S + 1
    /\ AnswerPos = PRun.next /\ req.body.choice_id = Frontier(Presented).cid
    /\ resp.error = ExpiredMessage

Claim_C16 ==
    /\ (TookToken /\ Get(Presented).sig.key # _dataset_secret)
          => NothingIssued /\ resp.error = InvalidMessage
    /\ held # None
          => \A s1, s2 \in SecretsOf(dataset) :
                LET t == _token_dumps(s1, "run", RunOf(held))
                    l == _token_loads(s2, t, "run", RUN_TOKEN_MAX_AGE_S)
                IN  /\ s1 # s2 => l.raises = "BadSignature" /\ l.p = None
                    /\ s1 = s2 => l.raises = ""

\* a token rightly signed under the secret of the dataset was answered
\* with after the server got an APP_SECRET
Witness_C16 ==
    /\ req.op = "answer" /\ Presented # None
    /\ app_secret # 0
    /\ Get(Presented).sig
         = Sign(_sha256_hex(dataset), "run", Get(Presented).p, Get(Presented).ts)
    /\ PRun.next >= 1
    /\ resp.error = InvalidMessage

\* C17: every run a client holds, encoded and decoded at once under the
\* secret in force, is accepted and comes back equal in every field (run id,
\* level, start time, score, next, questions, answers, correctness)
Claim_C17 ==
    held # None
       => LET runp == RunOf(held)
              v == _validate_run_token(_update_run_token(runp))
          IN  /\ v.msg = "" /\ v.runp # None
              /\ Get(v.runp) = runp
              /\ \A f \in {"rid", "lvl", "t0", "score", "next", "qs", "ans", "ok"} :
                     Get(v.runp)[f] = runp[f]

\* a run of level 2 with a right and a wrong answer written makes the round
\* trip
Witness_C17 ==
    /\ held # None
    /\ RunOf(held).lvl = 2 /\ RunOf(held).next >= 2
    /\ RunOf(held).score >= 1 /\ Wrongs(RunOf(held)) >= 1
    /\ _validate_run_token(_update_run_token(RunOf(held))).runp = Some(RunOf(held))

\* the messages of the errors the decoder raises
FormatMessage == "Ungültiges Token-Format."
KindMessage == "Ungültiges Token."
LengthMessages ==
    {"Run-Token ist ungültig (qs).", "Run-Token ist ungültig (ans).",
     "Run-Token ist ungültig (ok).", "Run-Token ist ungültig (next)."}
DecodeMessages ==
    {FormatMessage, KindMessage, ExpiredMessage, InvalidMessage, IncompleteMessage}
    \cup LengthMessages

\* token t has every required field
Complete(t) == {"rid", "lvl", "score", "next", "qs", "ans", "ok", "t0"} \subseteq DOMAIN t.p

\* token t has the shape, the tag, the fields, the array lengths and the
\* cursor of a run; the cursor is the number the decoder reads in the field
Shaped(t) ==
    /\ t.fmt
    /\ t.k = "run"
    /\ Complete(t)
    /\ Len(t.p.qs) = QUESTIONS_PER_LEVEL
    /\ Len(t.p.ans) = QUESTIONS_PER_LEVEL
    /\ Len(t.p.ok) = QUESTIONS_PER_LEVEL
    /\ _safe_int(t.p.next, 0) \in 0..QUESTIONS_PER_LEVEL

\* C18: Resume, View and Answer act on a presented token only if it matches
\* the shape, carries the tag "run", has every required field, arrays of
\* exactly 15 elements and a cursor from 0 to 15; a token failing one of
\* these is rejected with a decoder's error and nothing is issued; the
\* cursor of a run an operation hands back is from 0 to 15
Claim_C18 ==
    TookToken
       => /\ resp.error \notin DecodeMessages => Shaped(Get(Presented))
          /\ ~Shaped(Get(Presented))
                => NothingIssued /\ resp.error \in DecodeMessages /\ held = Presented
          /\ resp.ok => /\ Shaped(Get(Presented))
                        /\ Get(resp.state).next \in 0..QUESTIONS_PER_LEVEL

\* a token of the server, signed now, whose answers have 16 elements was
\* rejected for it
Witness_C18 ==
    /\ TookToken /\ req.op = "answer"
    /\ WellSigned(Presented) /\ Age = 0
    /\ Get(Presented).fmt /\ Get(Presented).k = "run" /\ Complete(Get(Presented))
    /\ Len(Get(Presented).p.qs) = QUESTIONS_PER_LEVEL
    /\ Len(Get(Presented).p.ans) = QUESTIONS_PER_LEVEL + 1
    /\ resp.error = "Run-Token ist ungültig (ans)." /\ NothingIssued

\* C19: of the tokens that match the shape, one signed by the server longer
\* ago than the maximal age is reported as expired, one with another
\* signature as invalid, whatever its age, one of the server that is not
\* older and carries another tag as an invalid token, and one of the
\* server that is not older, carries the tag "run" and lacks a required
\* field as incomplete; each of the three reports is given in its case only
Claim_C19 ==
    (TookToken /\ Get(Presented).fmt)
       => LET t == Get(Presented)
              expired == WellSigned(Presented) /\ Age > RUN_TOKEN_MAX_AGE_S
              forged == ~WellSigned(Presented)
              mistagged == WellSigned(Presented) /\ Age <= RUN_TOKEN_MAX_AGE_S /\ t.k # "run"
              incomplete == /\ WellSigned(Presented) /\ Age <= RUN_TOKEN_MAX_AGE_S
                            /\ t.k = "run" /\ ~Complete(t)
          IN  /\ expired <=> resp.error = ExpiredMessage
              /\ forged <=> resp.error = InvalidMessage
              /\ mistagged <=> resp.error = KindMessage
              /\ incomplete <=> resp.error = IncompleteMessage
              /\ (expired \/ forged \/ mistagged \/ incomplete) => NothingIssued
              /\ Cardinality({ExpiredMessage, InvalidMessage, KindMessage,
                              IncompleteMessage}) = 4

\* a token signed by someone else longer ago than the maximal age was
\* reported as invalid
Witness_C19 ==
    /\ TookToken /\ Get(Presented).fmt
    /\ Get(Presented).sig.key \in ClientSecrets
    /\ Age > RUN_TOKEN_MAX_AGE_S
    /\ resp.error = InvalidMessage /\ ~resp.ok

\* the least k with n <= 15 k
CeilingOfLevels(n) ==
    CHOOSE k \in 0..n : QUESTIONS_PER_LEVEL * (k - 1) < n /\ n <= QUESTIONS_PER_LEVEL * k

\* C20: in a process whose dataset has at least 3 eligible characters the
\* number of levels is the number of eligible characters divided by 15 and
\* rounded up, at least 1, every level has exactly 15 character ids, all of
\* eligible characters, and the list of levels the client receives has
\* that many levels of 15 questions
Claim_C20 ==
    Len(get_eligible_characters) >= 3
       => LET n == Len(get_eligible_characters)
          IN  /\ LevelsFailure = ""
              /\ Len(get_levels) = Max(1, CeilingOfLevels(n))
              /\ \A lv \in 1..Len(get_levels) :
                    /\ Len(get_levels[lv].character_ids) = QUESTIONS_PER_LEVEL
                    /\ Range(get_levels[lv].character_ids)
                          \subseteq Range(IdsOf(get_eligible_characters))
              /\ req.op = "levels"
                    => /\ resp.ok /\ resp.eligible_total = n
                       /\ Len(resp.levels) = Max(1, CeilingOfLevels(n))
                       /\ \A i \in 1..Len(resp.levels) :
                             resp.levels[i].level = i
                             /\ resp.levels[i].questions = QUESTIONS_PER_LEVEL
              /\ (req.op = "start" /\ resp.ok) => Len(IRun.qs) = QUESTIONS_PER_LEVEL

\* a process with 31 eligible characters listed three levels, the third
\* filled up to 15 character ids
Witness_C20 ==
    /\ Len(get_eligible_characters) = 2 * QUESTIONS_PER_LEVEL + 1
    /\ req.op = "levels" /\ resp.ok /\ Len(resp.levels) = 3
    /\ Len(get_levels[3].character_ids) = QUESTIONS_PER_LEVEL

\* C21: two computations of the levels from the same dataset bytes, one
\* before and one after the process is started again, give the same list of
\* levels with the same character ids in the same order
Claim_C21 == [][dataset' = dataset => get_levels' = get_levels]_vars

\* C22: the levels are those drawn with the digest of the dataset bytes as
\* the master seed, whether an APP_SECRET is set or not and whichever it is
Claim_C22 ==
    /\ get_levels = Levels(IdsOf(get_eligible_characters), _sha256_hex(dataset))
    /\ \A s \in SecretsOf(dataset) : LevelsCache[dataset][s] = get_levels

\* the options of question q are three different ids, the question's
\* character is one of them and the two others are eligible characters
WellFormedQuestion(q) ==
    /\ Len(q.opt) = 3
    /\ Cardinality(Range(q.opt)) = 3
    /\ Cardinality({i \in 1..Len(q.opt) : q.opt[i] = q.cid}) = 1
    /\ \A i \in 1..Len(q.opt) :
          q.opt[i] # q.cid => q.opt[i] \in Range(IdsOf(get_eligible_characters))

\* C23: every run Start builds has 15 questions, each with exactly 3
\* pairwise distinct options of which exactly one is the question's
\* character and the two others are eligible characters other than it; with
\* fewer than 3 eligible characters Start fails with a data error and
\* builds no run
Claim_C23 ==
    /\ (req.op = "start" /\ resp.ok)
          => /\ Len(IRun.qs) = QUESTIONS_PER_LEVEL
             /\ \A i \in 1..Len(IRun.qs) : WellFormedQuestion(IRun.qs[i])
             /\ \A i \in 1..Len(IRun.qs) :
                   IRun.qs[i].cid = get_levels[IRun.lvl].character_ids[i]
    /\ (req.op = "start" /\ LevelsFailure = "QuizDataError")
          => /\ Len(get_eligible_characters) < 3
             /\ NothingIssued /\ resp.error = EligibleMessage /\ held = None
    /\ held # None => \A i \in 1..Len(RunOf(held).qs) : WellFormedQuestion(RunOf(held).qs[i])

\* a run was built from exactly 3 eligible characters: every question
\* offers all three
Witness_C23 ==
    /\ req.op = "start" /\ resp.ok
    /\ Len(get_eligible_characters) = 3
    /\ \A i \in 1..QUESTIONS_PER_LEVEL :
          Range(IRun.qs[i].opt) = Range(IdsOf(get_eligible_characters))

\* the ids of a level are pairwise distinct
Distinct(ids) == Cardinality(Range(ids)) = Len(ids)

\* C24: with at least 15 eligible characters every level, a filled-up last
\* level too, has 15 pairwise distinct eligible ids; a level holds an id
\* twice only in a process with fewer than 15 eligible characters
Claim_C24 ==
    Len(get_eligible_characters) >= 3
       => \A lv \in 1..Len(get_levels) :
             LET ids == get_levels[lv].character_ids
             IN  /\ Len(get_eligible_characters) >= QUESTIONS_PER_LEVEL
                       => Distinct(ids) /\ Cardinality(Range(ids)) = QUESTIONS_PER_LEVEL
                 /\ ~Distinct(ids) => Len(get_eligible_characters) < QUESTIONS_PER_LEVEL
                 /\ Range(ids) \subseteq Range(IdsOf(get_eligible_characters))
                 /\ (req.op = "start" /\ resp.ok /\ IRun.lvl = lv
                        /\ Len(get_eligible_characters) >= QUESTIONS_PER_LEVEL)
                       => Cardinality({IRun.qs[i].cid : i \in 1..Len(IRun.qs)})
                             = QUESTIONS_PER_LEVEL

\* the second level of a process with 16 eligible characters was started:
\* one id of its own and 14 filled in, all different
Witness_C24 ==
    /\ Len(get_eligible_characters) = QUESTIONS_PER_LEVEL + 1
    /\ req.op = "start" /\ resp.ok /\ IRun.lvl = 2
    /\ Distinct(get_levels[2].character_ids)
    /\ Cardinality({IRun.qs[i].cid : i \in 1..Len(IRun.qs)}) = QUESTIONS_PER_LEVEL

\* the level the handler of the last request read
StartLevel == _safe_int(req.body.level, 0)

\* C25: Start with a level from 1 to the number of levels returns a run of
\* that level with score 0, next 0, 15 empty answers and 15 empty
\* correctness slots, and the view of question 0 with done false; Start
\* with any other level (0, negative, above the number of levels, no
\* number, missing) or without a JSON body is rejected and issues no run;
\* Resume issues the run it was given and nothing without one
Claim_C25 ==
    /\ (req.op = "start" /\ req.body.valid /\ StartLevel \in 1..Len(get_levels))
          => /\ resp.ok /\ resp.run # None
             /\ IRun.lvl = StartLevel /\ IRun.score = 0 /\ IRun.next = 0
             /\ IRun.ans = [i \in 1..QUESTIONS_PER_LEVEL |-> None]
             /\ IRun.ok = [i \in 1..QUESTIONS_PER_LEVEL |-> None]
             /\ Len(IRun.qs) = QUESTIONS_PER_LEVEL
             /\ Get(resp.state).level = StartLevel
             /\ Get(resp.state).pos = 0 /\ Get(resp.state).next = 0
             /\ Get(resp.state).score = 0 /\ Get(resp.state).done = FALSE
             /\ Get(resp.question).pos = 0 /\ Get(resp.question).idx = 1
             /\ ~Get(resp.question).answered
    /\ (req.op = "start" /\ ~(req.body.valid /\ StartLevel \in 1..Len(get_levels)))
          => NothingIssued /\ held = None
    /\ (req.op = "start" /\ req.body.valid
          /\ req.body.level \in {JNull, JInt(-1), JInt(0), JInt(Len(get_levels) + 1),
                                 JStr("two")})
          => NothingIssued /\ resp.error = LevelMessage
    /\ (req.op = "resume" /\ Presented = None) => NothingIssued /\ held = None
    /\ (req.op = "resume" /\ resp.ok) => Presented # None /\ IRun = PRun

\* level 2 was started by a client that played before
Witness_C25 ==
    /\ req.op = "start" /\ resp.ok
    /\ req.body.level = JInt(2) /\ IRun.lvl = 2
    /\ IRun.next = 0 /\ Get(resp.state).done = FALSE
    /\ held = resp.run

\* C26: Resume shows question 0 of a run without answers and the last
\* answered question otherwise, position 14 for a complete run; the
\* position shown is from 0 to 14 and never beyond the run's next
Claim_C26 ==
    /\ (req.op = "resume" /\ Presented # None) => resp.ok
    /\ (req.op = "resume" /\ resp.ok)
          => LET shown == Get(resp.state).pos
             IN  /\ Get(resp.question).pos = shown
                 /\ Get(resp.question).idx = shown + 1
                 /\ shown \in 0..(QUESTIONS_PER_LEVEL - 1)
                 /\ shown <= PRun.next
                 /\ PRun.next = 0 => shown = 0 /\ ~Get(resp.question).answered
                 /\ PRun.next > 0 => shown = PRun.next - 1 /\ Get(resp.question).answered
                 /\ PRun.next = QUESTIONS_PER_LEVEL => shown = QUESTIONS_PER_LEVEL - 1
                 /\ Get(resp.state).next = PRun.next

\* a complete run was resumed and question 14 shown
Witness_C26 ==
    /\ req.op = "resume" /\ resp.ok
    /\ PRun.next = QUESTIONS_PER_LEVEL
    /\ Get(resp.state).pos = QUESTIONS_PER_LEVEL - 1
    /\ Get(resp.question).answered

\* C27: on every endpoint an exception raised while a request is handled is
\* caught by the handler and answered as {ok: false, error}; no request
\* ends in an exception that leaves the handler
Claim_C27 ==
    req.op # "none"
       => /\ resp.handled
          /\ ~resp.ok => resp.error # "" /\ resp.status \in {400, 500}

\* the presented token is one the decoder accepts
Accepted(tok) ==
    Shaped(Get(tok)) /\ WellSigned(tok) /\ req.at - Get(tok).ts <= RUN_TOKEN_MAX_AGE_S

\* C28: a Start, Resume, View or Answer that is rejected (a level that does
\* not exist; a token that is malformed, expired or not signed by the
\* server; a position that is not unlocked or not the next; a choice that
\* is no option) is answered with status 400, ok false and an error text,
\* and the response carries no token, state, question or summary; each of
\* these requests is rejected
Claim_C28 ==
    /\ (req.op \in {"start", "resume", "question", "answer"} /\ ~resp.ok)
          => /\ resp.status = 400 /\ resp.handled /\ resp.error # ""
             /\ resp.run = None /\ resp.state = None /\ resp.question = None
             /\ resp.done = None /\ resp.summary = None
             /\ TookToken => held = Presented
    /\ (req.op = "start" /\ StartLevel \notin 1..Len(get_levels)) => ~resp.ok
    /\ (TookToken /\ ~Accepted(Presented)) => ~resp.ok
    /\ (TookToken /\ Accepted(Presented))
          => LET nxt == _safe_int(Get(Presented).p.next, 0)
                 opts == IF nxt < QUESTIONS_PER_LEVEL
                         THEN Range(Get(Presented).p.qs[nxt + 1].opt) ELSE {}
             IN  /\ (req.op = "question" /\ ViewPos > nxt) => ~resp.ok
                 /\ (req.op = "answer" /\ AnswerPos # nxt) => ~resp.ok
                 /\ (req.op = "answer" /\ req.body.choice_id \notin opts) => ~resp.ok

\* a choice that is no option of the question was sent with a token the
\* decoder accepts, at its next position, and rejected
Witness_C28 ==
    /\ req.op = "answer" /\ TookToken /\ Accepted(Presented)
    /\ AnswerPos = _safe_int(Get(Presented).p.next, 0)
    /\ req.body.choice_id = "zz-9"
    /\ resp.error = "Auswahl passt nicht zur Frage." /\ resp.status = 400
    /\ resp.run = None

\* C29: in a process whose dataset file is missing or has fewer than 3
\* eligible characters, health, levels, start, resume, question and answer
\* each answer with status 500 or 404 and never with 400
Claim_C29 ==
    (/\ req.op \in {"health", "levels", "start", "resume", "question", "answer"}
     /\ (load_dataset_raises \/ Len(get_eligible_characters) < 3))
       => ~resp.ok /\ resp.status \in {500, 404}

\* C30: when several requests arrive together at a process that has
\* computed nothing yet, the dataset load, the eligible-character filter
\* and the level generation each run at most once
Claim_C30 ==
    /\ calls["load_dataset"] <= 1
    /\ calls["get_eligible_characters"] <= 1
    /\ calls["get_levels"] <= 1

\* C31: once get_levels holds its result, every later request of the
\* process sees the same level list and the same eligible characters,
\* whatever happens to the dataset file, and no step changes them; while
\* the computation fails, the process goes on and every request for the
\* levels, the health or a run reports the failure.
Claim_C31 ==
    [][
        /\ cache["get_levels"] =>
              /\ cache'["get_levels"]
              /\ get_levels' = get_levels
              /\ get_eligible_characters' = get_eligible_characters
        /\ (req'.op \in {"levels", "health", "start"} /\ LevelsFailure' # "") =>
              /\ ~resp'.ok /\ resp'.handled /\ resp'.status \in {400, 500}
              /\ resp'.error # ""
              /\ ~cache'["get_levels"]
        /\ (req'.op \in {"levels", "health"} /\ LevelsFailure' = "") => resp'.ok
    ]_vars

\* the levels are served from the cache after the file was replaced by
\* another one, and after it was removed
Witness_C31 ==
    /\ cache["get_levels"] /\ disk # dataset /\ ~Datasets[disk].exists
    /\ req.op = "levels" /\ resp.ok
    /\ Len(resp.levels) = Len(get_levels)

\* the number of values of a profile that read "unbekannt" or "unknown" in
\* any letter case, the excluded keys and the blank pairs left out
UnknownValues(pf) ==
    LET IsUnknown(kv) == Lower(kv[2]) \in {"unbekannt", "unknown"}
    IN  Len(SelectSeq(_filter_profile_flat(pf), IsUnknown))

\* the ids of the valid characters with UNKNOWN_LIMIT or more such values
ManyUnknown ==
    {c.id : c \in {c \in Range(get_valid_characters) :
                      UnknownValues(c.profile_flat) >= UNKNOWN_LIMIT}}

\* C32: a character with five or more values "unbekannt" or "unknown", in
\* any letter case, is not eligible, is in no level and is no option of a
\* run.
Claim_C32 ==
    LevelsFailure = "" =>
        /\ ManyUnknown \cap Range(IdsOf(get_eligible_characters)) = {}
        /\ \A lv \in DOMAIN get_levels :
              ManyUnknown \cap Range(get_levels[lv].character_ids) = {}
        /\ held # None =>
              \A i \in 1..QUESTIONS_PER_LEVEL :
                 ManyUnknown \cap Range(RunOf(held).qs[i].opt) = {}

\* C33: every eligible character has a pair that is not blank among the
\* pairs of its profile that are left when the excluded keys are removed.
Claim_C33 ==
    LevelsFailure = "" =>
        \A c \in Range(get_eligible_characters) :
           _nonempty_profile_flat(_filter_profile_flat(c.profile_flat))

\* fewer than three characters of the dataset file are eligible
FewEligible == ~File.exists \/ Len(EligibleCache[dataset]) < 3

\* C34: with fewer than three eligible characters there is no level list and
\* no run: every Start fails with an error, as do the requests for the
\* levels and the health, and the client never gets a token; so the
\* options of every run come from at least three eligible ids.
Claim_C34 ==
    /\ FewEligible =>
          /\ held = None
          /\ req.op \in {"start", "levels", "health"} =>
                /\ ~resp.ok /\ resp.status \in {400, 500} /\ resp.error # ""
          /\ req.op = "start" => resp.run = None /\ resp.question = None
          /\ (req.op = "start" /\ LevelsFailure = "QuizDataError") =>
                resp.status = 400 /\ resp.error = EligibleMessage
    /\ held # None =>
          /\ Cardinality(Range(IdsOf(get_eligible_characters))) >= 3
          /\ \A i \in 1..QUESTIONS_PER_LEVEL :
                Range(RunOf(held).qs[i].opt) \subseteq Range(IdsOf(get_eligible_characters))

\* a Start is refused because two characters only are eligible
Witness_C34 ==
    /\ Len(EligibleCache[dataset]) = 2 /\ Len(ValidCache[dataset]) >= 3
    /\ req.op = "start" /\ _safe_int(req.body.level, 0) = 1
    /\ ~resp.ok /\ resp.error = EligibleMessage

-----------------------------------------------------------------------------
\* the response the handler of the last request gives when it runs alone
Alone ==
    IF req.op = "resume" THEN api_run_resume(req.body)
    ELSE IF req.op = "question" THEN api_run_question(req.body)
    ELSE IF req.op = "answer" THEN api_run_answer(req.body)
    ELSE resp

\* the run a handler in progress works on, as its own request determines it
OwnWork(f) ==
    IF f.fn = "answer" /\ f.pc = "render"
    THEN Some(StoreAnswer(Get(_validate_run_token(Get(f.body.run)).runp),
                          _safe_int(f.body.pos, -1), f.body.choice_id))
    ELSE _validate_run_token(Get(f.body.run)).runp

\* C35: under every interleaving of the steps of concurrent Resume, View and
\* Answer requests, on one token or on several, each request is answered as
\* its handler answers it alone (the same success or error, the same run,
\* state and question), and the run a handler works on is the one its own
\* token and inputs determine.
Claim_C35 ==
    /\ resp = Alone
    /\ \A t \in Threads : stack[t] # <<>> => stack[t][1].runp = OwnWork(stack[t][1])

\* an answer is accepted while another thread works on the same token
Witness_C35 ==
    /\ req.op = "answer" /\ resp.ok
    /\ \E t \in Threads :
          /\ stack[t] # <<>>
          /\ stack[t][1].pc = "render"
          /\ stack[t][1].body.run = req.body.run

-----------------------------------------------------------------------------
\* the run in which option o is the correct one of the question at pos
WithCorrect(runp, pos, o) == [runp EXCEPT !.qs[pos + 1].cid = o]

\* what the client holds after a response that shows position pos of a run:
\* the payload it reads in the token, and the question object without the
\* picture, which is the question itself
ClientView(runp, pos) ==
    [p |-> json_dumps(runp),
     question |-> [Get(_question_payload(runp, pos).q) EXCEPT !.image_url = ""]]

\* C36: while the question a response shows is not answered, the token's
\* payload and the question object (the picture aside) are the same
\* whichever of the question's three options is the correct one.
Claim_C36 ==
    (resp.ok /\ IRun.ans[Get(resp.state).pos + 1] = None)
        => \A o \in Range(IRun.qs[Get(resp.state).pos + 1].opt) :
              ClientView(WithCorrect(IRun, Get(resp.state).pos, o), Get(resp.state).pos)
                  = ClientView(IRun, Get(resp.state).pos)

-----------------------------------------------------------------------------
\* the run of a response has the score, answers, correctness and cursor of
\* the run the client holds
SameResult(r) ==
    /\ r.ok /\ r.run # None
    /\ RunOf(r.run).score = RunOf(held).score
    /\ RunOf(r.run).ans = RunOf(held).ans
    /\ RunOf(r.run).ok = RunOf(held).ok
    /\ RunOf(r.run).next = RunOf(held).next
    /\ RunOf(r.run).qs = RunOf(held).qs

\* the options of the question at pos, or of the nearest question
OptionsNear(runp, pos) == Range(runp.qs[Min(Max(pos, 0), QUESTIONS_PER_LEVEL - 1) + 1].opt)

\* C37: when the run of the client's token is complete (next = 15), an
\* Answer at every position from -1 to 16, position 15 included, with every
\* option of the question there is rejected with status 400 and issues no
\* token; Resume succeeds, reports done and returns the run with the same
\* score, answers, correctness and cursor, and so does View at each of the
\* positions 0..14.
Claim_C37 ==
    (held # None /\ RunOf(held).next = QUESTIONS_PER_LEVEL)
        => /\ \A pos \in (-1)..(QUESTIONS_PER_LEVEL + 1) :
                 \A c \in OptionsNear(RunOf(held), pos) :
                    LET r == api_run_answer(Body(held, JInt(pos), c, JNull))
                    IN  ~r.ok /\ r.status = 400 /\ r.run = None
           /\ SameResult(api_run_resume(Body(held, JNull, "", JNull)))
           /\ api_run_resume(Body(held, JNull, "", JNull)).done = Some(TRUE)
           /\ \A pos \in 0..(QUESTIONS_PER_LEVEL - 1) :
                 SameResult(api_run_question(Body(held, JInt(pos), "", JNull)))
           /\ (TookToken /\ Presented = held /\ req.op = "answer") => ~resp.ok
           /\ (TookToken /\ Presented = held /\ resp.ok) => SameResult(resp)

\* the client has sent an Answer at position 15 with the token of a complete
\* run and was turned away
Witness_C37 ==
    /\ held # None /\ RunOf(held).next = QUESTIONS_PER_LEVEL
    /\ req.op = "answer" /\ Presented = held
    /\ AnswerPos = QUESTIONS_PER_LEVEL
    /\ ~resp.ok

-----------------------------------------------------------------------------
\* the number of answers a run holds
Answered(runp) == Len(SelectSeq(runp.ans, LAMBDA a : a # None))

\* every option of the frontier question is accepted, and the cursor counts
\* the answers
CanGoOn ==
    held # None
        => /\ RunOf(held).next \in 0..QUESTIONS_PER_LEVEL
           /\ Answered(RunOf(held)) = RunOf(held).next
           /\ HasFrontier(held)
                 => /\ Len(Frontier(held).opt) = 3
                    /\ Distinct(Frontier(held).opt)
                    /\ \A c \in Range(Frontier(held).opt) :
                          api_run_answer(Body(held, JInt(RunOf(held).next), c, JNull)).ok

\* a run starts with no answer, an accepted Answer adds exactly one, and no
\* other request adds or removes one
OneByOne ==
    resp'.ok
        => RunOf(resp'.run).next =
              IF req'.op = "start" THEN 0
              ELSE IF req'.op = "answer" THEN RunOf(req'.body.run).next + 1
              ELSE RunOf(req'.body.run).next

InProgress == HasFrontier(held)
IsComplete == held # None /\ RunOf(held).next = QUESTIONS_PER_LEVEL

\* C38: while a run is in progress an Answer at its cursor with any of the
\* three options of that question is accepted; the cursor of a new run is 0,
\* each accepted Answer moves it by exactly one and nothing else moves it,
\* and the run is complete when the cursor is 15, so that it is complete
\* after exactly 15 accepted Answers; a client that keeps answering the
\* frontier question reaches the complete run.
Claim_C38 ==
    /\ []CanGoOn
    /\ [][OneByOne]_vars
    /\ InProgress ~> IsComplete

\* a complete run with 15 answers, reached by an accepted Answer
Witness_C38 ==
    /\ IsComplete
    /\ req.op = "answer" /\ resp.ok
    /\ Answered(RunOf(held)) = QUESTIONS_PER_LEVEL

-----------------------------------------------------------------------------
\* C39: the token a successful Start, Resume, View or Answer issues is
\* signed at the time of that request; Resume, View and Answer reject a
\* token the server signed as expired exactly when more than
\* RUN_TOKEN_MAX_AGE_S seconds have passed since it was signed, however long
\* ago the run was started, so that a run whose requests follow one another
\* within that time is never turned away as expired.
Claim_C39 ==
    /\ resp.ok => Get(resp.run).ts = req.at
    /\ (TookToken /\ WellSigned(Presented))
          => /\ (resp.error = ExpiredMessage) <=> (Age > RUN_TOKEN_MAX_AGE_S)
             /\ Get(Presented).ts <= req.at
             /\ PRun.t0 <= Get(Presented).ts

\* a run that was started longer ago than RUN_TOKEN_MAX_AGE_S is continued
\* with a token that is not older
Witness_C39 ==
    /\ TookToken /\ resp.ok
    /\ req.at - PRun.t0 > RUN_TOKEN_MAX_AGE_S
    /\ Age <= RUN_TOKEN_MAX_AGE_S /\ Age > 0

-----------------------------------------------------------------------------
\* the ids of level lv that are its own: all 15, or those the last level had
\* before it was filled up
OwnIds(lv) ==
    SubSeq(get_levels[lv].character_ids, 1,
           Min(QUESTIONS_PER_LEVEL,
               Len(get_eligible_characters) - (lv - 1) * QUESTIONS_PER_LEVEL))

\* the own ids of the levels lv.., one level after the other
RECURSIVE OwnFrom(_)
OwnFrom(lv) == IF lv > Len(get_levels) THEN <<>> ELSE OwnIds(lv) \o OwnFrom(lv + 1)

\* C40: in a process with at least 3 eligible characters the own ids of the
\* levels, one level after the other, are the one shuffled order of the
\* eligible ids, each id once: every eligible id is in a level, every id of
\* a level is an eligible id, every level but the last is a slice of 15 ids
\* of that order, level lv the ids from 15 (lv - 1) on, and no two of these
\* levels share an id.
Claim_C40 ==
    Len(get_eligible_characters) >= 3
       => LET ids == IdsOf(get_eligible_characters)
              n == Len(get_levels)
          IN  /\ OwnFrom(1) = OrderedIds(ids, _dataset_secret)
              /\ Len(OwnFrom(1)) = Len(ids)
              /\ Range(OwnFrom(1)) = Range(ids)
              /\ \A c \in Range(ids) :
                    \E lv \in 1..n : c \in Range(get_levels[lv].character_ids)
              /\ \A lv \in 1..n : Range(get_levels[lv].character_ids) \subseteq Range(ids)
              /\ \A lv \in 1..(n - 1) :
                    /\ get_levels[lv].character_ids = OwnIds(lv)
                    /\ get_levels[lv].character_ids
                          = Slice(OwnFrom(1), (lv - 1) * QUESTIONS_PER_LEVEL,
                                  lv * QUESTIONS_PER_LEVEL)
                    /\ \A other \in 1..(n - 1) :
                          other # lv
                             => Range(get_levels[lv].character_ids)
                                   \cap Range(get_levels[other].character_ids) = {}

\* a process with 31 eligible characters has listed its levels: two levels
\* that share no id and a third with one id of its own
Witness_C40 ==
    /\ Len(get_eligible_characters) = 2 * QUESTIONS_PER_LEVEL + 1
    /\ req.op = "levels" /\ resp.ok
    /\ Len(get_levels) = 3
    /\ Len(OwnIds(3)) = 1
    /\ Range(get_levels[1].character_ids) \cap Range(get_levels[2].character_ids) = {}
    /\ Range(get_levels[3].character_ids) \cap Range(get_levels[1].character_ids) # {}


====
